---- MODULE Spec2Model ----
(***************************************************************************)
(* Model of the ai-dev-assistant core: the edit engine (code_editor.py),   *)
(* the context selector (context_selector.py) and edit validation.         *)
(*                                                                         *)
(* Strings are sequences of one-character strings, so that substring,      *)
(* prefix, split and join are computed as Python computes them.  A path is *)
(* a sequence of components, each component a string in that sense.        *)
(***************************************************************************)
EXTENDS Integers, Sequences, FiniteSets, TLC

VARIABLES
    fs,             \* regular files on disk: absolute path -> content
    dirs,           \* directories on disk: set of absolute paths
    clock,          \* wall clock in whole seconds (what strftime formats)
    create_backups, \* CodeEditor.create_backups
    pc,             \* position of the caller of apply_edits
    edits,          \* the Edit objects of the current apply_edits call
    gi,              \* index of the next group of edits_by_file to process
    applied,        \* local list `applied` (indices into edits)
    failed,         \* local list `failed` (indices into edits)
    backup_path,    \* local `backup_path` / EditResult.backup_path
    fs0,            \* the files as they were when the current call began
    dirs0,          \* the directories as they were when the current call began
    seen,           \* per edit: modified_content as the edit found it
    io_failed,      \* whether the environment failed an I/O step of the current call
    events,         \* backup events of the current call, in order
    calls,          \* number of apply_edits calls made so far
    rb,             \* the last rollback call: its argument and return value
    inputs,         \* the edits callers submit in this run (fixed at the start)
    files,          \* indexer.files: the catalog, in dict order
    sel,            \* the last select_context call: inputs and result
    val,            \* the last validate_edit call: input and result
    scores,         \* the _score_file calls made so far: inputs and score
    mtime,          \* st_mtime of the files of the backup directory
    cl,             \* the last cleanup_backups call: argument and the directory before
    ix,             \* a RepositoryIndexer: files, project_type, dependencies
    cache_file,     \* the document in '.ai-dev-assistant-cache.json'
    scans,          \* the index() calls made so far: arguments and what they returned
    persisted,      \* what the indexer held at its last successful _save_cache
    gen,            \* number of changes made to the repository's files by others
    wf,             \* the workflow threads: position, ticket, repository, locals
    ticket_queues,  \* app.ticket_queues: ticket id -> the Queue object it holds now
    queues,         \* the Queue objects: the status updates put on each, in order
    repo_indexers,  \* app.repo_indexers: repository name -> indexer object
    store,          \* projects.json: project id -> its tickets, in order
    callers         \* the threads inside a ProjectManager call: their local `projects`

vars == <<fs, dirs, clock, create_backups, pc, edits, gi, applied, failed,
          backup_path, fs0, dirs0, seen, io_failed, events, calls, rb, inputs, files, sel, val,
          scores, mtime, cl, ix, cache_file, scans, persisted, gen,
          wf, ticket_queues, queues, repo_indexers, store, callers>>

cleanVars == <<mtime, cl>>
indexVars == <<ix, cache_file, scans, persisted, gen>>
appVars == <<wf, ticket_queues, queues, repo_indexers, store, callers>>
coreVars == <<fs, dirs, clock, create_backups, pc, edits, gi, applied, failed,
              backup_path, fs0, dirs0, seen, io_failed, events, calls, rb, inputs,
              files, sel, val, scores, cleanVars, indexVars>>

----------------------------------------------------------------------------
(* Bounds of the model *)

MaxEdits == 2
MaxCalls == 2
MaxClock == 1

----------------------------------------------------------------------------
(* Python str and list operations *)

NL == "\n"

\* None for an optional string field and for an optional int field
NoneStr == <<"<None>">>
NoneInt == -1000

Max(a, b) == IF a >= b THEN a ELSE b
Min(a, b) == IF a <= b THEN a ELSE b

\* s.startswith(p)
StartsWith(s, p) == Len(p) <= Len(s) /\ SubSeq(s, 1, Len(p)) = p

\* s.find(sub) + 1: the 1-based index of the first occurrence, 0 if none
IndexOf(sub, s) ==
    LET hits == {i \in 1..(Len(s) - Len(sub) + 1) :
                    SubSeq(s, i, i + Len(sub) - 1) = sub}
    IN IF hits = {} THEN 0 ELSE CHOOSE i \in hits : \A j \in hits : i <= j

\* sub in s
Contains(sub, s) == IndexOf(sub, s) # 0

\* s.replace(old, new, 1)
ReplaceFirst(s, old, new) ==
    LET i == IndexOf(old, s)
    IN IF i = 0 THEN s
       ELSE SubSeq(s, 1, i - 1) \o new \o SubSeq(s, i + Len(old), Len(s))

\* s.split(sep) for a one-character sep: "" gives [""], "a\n" gives ["a", ""]
RECURSIVE Split(_, _)
Split(s, sep) ==
    LET i == IndexOf(<<sep>>, s)
    IN IF i = 0 THEN <<s>>
       ELSE <<SubSeq(s, 1, i - 1)>> \o Split(SubSeq(s, i + 1, Len(s)), sep)

\* sep.join(lines)
RECURSIVE Join(_, _)
Join(lines, sep) ==
    IF Len(lines) = 0 THEN <<>>
    ELSE IF Len(lines) = 1 THEN lines[1]
    ELSE lines[1] \o <<sep>> \o Join(Tail(lines), sep)

\* s.split(marker)[0]
SplitFirst(s, marker) ==
    LET i == IndexOf(marker, s)
    IN IF i = 0 THEN s ELSE SubSeq(s, 1, i - 1)

\* list.insert(k, x): a negative k counts from the end, and k is clamped
ListInsert(lines, k, x) ==
    LET at == IF k < 0 THEN Max(k + Len(lines), 0) ELSE Min(k, Len(lines))
    IN SubSeq(lines, 1, at) \o <<x>> \o SubSeq(lines, at + 1, Len(lines))

\* del lines[s:e] for 0 <= s < len: a negative e counts from the end
RECURSIVE Keep(_, _, _, _)
Keep(lines, i, lo, hi) ==
    IF i > Len(lines) THEN <<>>
    ELSE (IF lo <= i - 1 /\ i - 1 < hi THEN <<>> ELSE <<lines[i]>>)
         \o Keep(lines, i + 1, lo, hi)

ListDelSlice(lines, s, e) ==
    LET hi == IF e < 0 THEN Max(e + Len(lines), 0) ELSE Min(e, Len(lines))
    IN Keep(lines, 1, s, hi)

\* the elements of a sequence
Range(s) == {s[i] : i \in 1..Len(s)}

----------------------------------------------------------------------------
(* Paths *)

R   == <<"r">>                  \* the repository root directory, /r
RX  == <<"r", "x">>             \* a sibling of the root whose name starts with the root's, /rx
DA  == <<"a">>
DB  == <<"b">>
FX  == <<"x">>
UP  == <<".", ".">>
DOT == <<".">>

repo_path == <<R>>

\* '.ai-dev-assistant-backups', a dot-prefixed directory name
BackupDirName == <<".", "k">>
backup_dir == repo_path \o <<BackupDirName>>

\* the '.backup.' marker of a backup's name ("B" stands for the word 'backup')
BackupMarker == <<".", "B", ".">>

NoPath == << <<"<None>">> >>

\* the mark of an edit the loop has not reached
NotReached == <<"<unreached>">>

\* the path with '.' components dropped and 'name/..' pairs collapsed, as the
\* operating system walks it when every directory on the way exists
RECURSIVE Normalize(_, _)
Normalize(done, rest) ==
    IF Len(rest) = 0 THEN done
    ELSE IF Head(rest) = DOT THEN Normalize(done, Tail(rest))
    ELSE IF Head(rest) = UP
         THEN Normalize(IF Len(done) = 0 THEN done
                        ELSE SubSeq(done, 1, Len(done) - 1), Tail(rest))
    ELSE Normalize(Append(done, Head(rest)), Tail(rest))

\* the components of a path, each behind its '/'
RECURSIVE JoinComps(_)
JoinComps(p) ==
    IF Len(p) = 0 THEN <<>> ELSE <<"/">> \o Head(p) \o JoinComps(Tail(p))

\* str() of an absolute path
PathStr(p) == IF Len(p) = 0 THEN <<"/">> ELSE JoinComps(p)

\* an edit's file_path: its components and whether it starts at '/'
RelPath(comps) == [abs |-> FALSE, comps |-> comps]
AbsPath(comps) == [abs |-> TRUE, comps |-> comps]

\* self.repo_path / file_path: an absolute right operand replaces the left
JoinRepo(file_path) ==
    IF file_path.abs THEN file_path.comps ELSE repo_path \o file_path.comps

\* the file the operating system reaches through repo_path / file_path
FullPath(file_path) == Normalize(<<>>, JoinRepo(file_path))

\* Path.name
PathName(p) == p[Len(p)]
\* Path.parent
PathParent(p) == SubSeq(p, 1, Len(p) - 1)
\* every proper ancestor directory of p
Ancestors(p) == {SubSeq(p, 1, k) : k \in 0..(Len(p) - 1)}

PathExists(f, d, p) == p \in DOMAIN f \/ p \in d

\* the files after writing content c to path p
WriteFile(f, p, c) == [q \in DOMAIN f \cup {p} |-> IF q = p THEN c ELSE f[q]]

----------------------------------------------------------------------------
(* Edit objects and the inputs the model submits *)

\* an Edit as its constructor leaves it: success False, error None
NewEdit(fp, op, old, new, ls, le) ==
    [file_path |-> fp, operation |-> op, old_content |-> old,
     new_content |-> new, line_start |-> ls, line_end |-> le,
     success |-> FALSE, error |-> "none"]

PA == RelPath(<<DA, FX>>)       \* a/x
PB == RelPath(<<DB, FX>>)       \* b/x: another directory, the same filename

ThreeLines == <<"a", NL, "b", NL, "a">>
OneLine    == <<"a", "b">>

\* the edits callers submit in runs about backups and several files
EditUniverse ==
    { NewEdit(PA, "full_replace", NoneStr, <<"b">>, NoneInt, NoneInt),
      NewEdit(PB, "full_replace", NoneStr, <<"b">>, NoneInt, NoneInt),
      NewEdit(PA, "insert", NoneStr, <<"b">>, NoneInt, NoneInt) }

\* the edits callers submit in runs about the operations on one file
LineEdits ==
    { NewEdit(PA, "full_replace", NoneStr, <<"b">>, NoneInt, NoneInt),
      NewEdit(PA, "replace", <<"b">>, <<"a", "a">>, NoneInt, NoneInt),
      NewEdit(PA, "replace", <<"a", "a">>, <<"b">>, NoneInt, NoneInt),
      NewEdit(PA, "insert", NoneStr, <<"b">>, 8, NoneInt),
      NewEdit(PA, "insert", NoneStr, <<"b">>, 3, NoneInt),
      NewEdit(PA, "insert", NoneStr, <<"b">>, -1, NoneInt) }

RECURSIVE SeqsUpTo(_, _)
SeqsUpTo(S, n) ==
    IF n = 0 THEN {<<>>}
    ELSE LET shorter == SeqsUpTo(S, n - 1)
         IN shorter \cup {Append(q, x) : q \in {t \in shorter : Len(t) = n - 1}, x \in S}

Batches == SeqsUpTo(inputs, MaxEdits)

\* what the environment may make fail while one file is processed
IOFailures == {"none", "backup", "read", "write"}

----------------------------------------------------------------------------
(* CodeEditor.apply_edits *)

\* edits_by_file: its keys in insertion order
RECURSIVE GroupKeys(_, _)
GroupKeys(es, known) ==
    IF Len(es) = 0 THEN <<>>
    ELSE IF Head(es).file_path \in known THEN GroupKeys(Tail(es), known)
    ELSE <<Head(es).file_path>> \o GroupKeys(Tail(es), known \cup {Head(es).file_path})

\* edits_by_file[key]: the indices of its edits, in submission order
RECURSIVE GroupEdits(_, _, _)
GroupEdits(es, key, i) ==
    IF i > Len(es) THEN <<>>
    ELSE (IF es[i].file_path = key THEN <<i>> ELSE <<>>) \o GroupEdits(es, key, i + 1)

\* _create_backup: the backup's name, '<name>.backup.<timestamp>'
Timestamp(t) == <<"t", t>>
BackupName(name, t) == name \o BackupMarker \o Timestamp(t)

\* the working state of one file's group: content is modified_content
Succeed(st, i, c) ==
    [st EXCEPT !.content = c, !.edits[i].success = TRUE, !.applied = Append(@, i)]
Fail(st, i, err) ==
    [st EXCEPT !.edits[i].error = err, !.edits[i].success = FALSE,
               !.failed = Append(@, i)]
Raise(st) == [st EXCEPT !.exc = TRUE]

OldContentFoundFirstChar(old, c) == Len(old) = 0 \/ Contains(<<old[1]>>, c)

\* `edit.old_content in modified_content`
OldContentFound(old, c) == Contains(old, c)

InsertIndexValidNoLower(ls, lines) == ls <= Len(lines)

\* `0 <= edit.line_start <= len(lines)`
InsertIndexValid(ls, lines) == 0 <= ls /\ ls <= Len(lines)

\* `0 <= edit.line_start < len(lines)`, the first conjunct of the delete test
DeleteStartValid(ls, lines) == 0 <= ls /\ ls < Len(lines)

\* `edit.line_end <= len(lines)`, the second conjunct of the delete test
DeleteEndValid(le, lines) == le <= Len(lines)

\* one pass of the loop `for edit in file_edits`
ApplyOne(st0, i) ==
    LET st == [st0 EXCEPT !.seen[i] = st0.content]
        e == st.edits[i]
        c == st.content
        lines == Split(c, NL)
    IN CASE e.operation = "full_replace" -> Succeed(st, i, e.new_content)
         [] e.operation = "replace" ->
              IF e.old_content = NoneStr \/ c = NoneStr THEN Raise(st)
              ELSE IF OldContentFound(e.old_content, c)
                   THEN IF e.new_content = NoneStr THEN Raise(st)
                        ELSE Succeed(st, i, ReplaceFirst(c, e.old_content, e.new_content))
                   ELSE Fail(st, i, "not_found")
         [] e.operation = "insert" ->
              IF c = NoneStr \/ e.line_start = NoneInt THEN Raise(st)
              ELSE IF InsertIndexValid(e.line_start, lines)
                   THEN IF e.new_content = NoneStr THEN Raise(st)
                        ELSE Succeed(st, i, Join(ListInsert(lines, e.line_start, e.new_content), NL))
                   ELSE Fail(st, i, "invalid_line")
         [] e.operation = "delete" ->
              IF c = NoneStr \/ e.line_start = NoneInt THEN Raise(st)
              ELSE IF DeleteStartValid(e.line_start, lines)
                   THEN IF e.line_end = NoneInt THEN Raise(st)
                        ELSE IF DeleteEndValid(e.line_end, lines)
                             THEN Succeed(st, i, Join(ListDelSlice(lines, e.line_start, e.line_end), NL))
                             ELSE Fail(st, i, "invalid_range")
                   ELSE Fail(st, i, "invalid_range")
         [] OTHER -> IF e.success THEN [st EXCEPT !.applied = Append(@, i)]
                     ELSE [st EXCEPT !.failed = Append(@, i)]

\* the loop over a group, left at the first exception
RECURSIVE RunGroup(_, _)
RunGroup(st, idxs) ==
    IF Len(idxs) = 0 \/ st.exc THEN st
    ELSE RunGroup(ApplyOne(st, Head(idxs)), Tail(idxs))

\* the except clause: every edit of the group is marked failed and appended
RECURSIVE MarkAllFailed(_, _)
MarkAllFailed(st, idxs) ==
    IF Len(idxs) = 0 THEN st
    ELSE MarkAllFailed(Fail(st, Head(idxs), "exception"), Tail(idxs))

\* `any(e.success for e in file_edits)`
AnySuccess(es, idxs) == \E i \in Range(idxs) : es[i].success

MkdirParentsNone(d, full) == d

\* `full_path.parent.mkdir(parents=True, exist_ok=True)`
MkdirParents(d, full) == d \cup Ancestors(full)

NoRollback == [called |-> FALSE, path |-> NoPath, ok |-> FALSE]

\* entry of apply_edits: locals initialised, edits grouped by file
ApplyEditsBegin(batch) ==
    /\ pc # "running"
    /\ calls < MaxCalls
    /\ pc' = "running"
    /\ edits' = batch
    /\ gi' = 1
    /\ applied' = <<>>
    /\ failed' = <<>>
    /\ backup_path' = NoPath
    /\ fs0' = fs
    /\ dirs0' = dirs
    /\ seen' = [i \in 1..Len(batch) |-> NotReached]
    /\ io_failed' = FALSE
    /\ events' = <<>>
    /\ calls' = calls + 1
    /\ rb' = NoRollback
    /\ UNCHANGED <<fs, dirs, clock, create_backups, inputs, files, sel, val, scores, cleanVars, indexVars, appVars>>

\* one pass of the loop `for file_path, file_edits in edits_by_file.items()`
ApplyEditsFile(io) ==
    /\ pc = "running"
    /\ gi <= Len(GroupKeys(edits, {}))
    /\ LET key == GroupKeys(edits, {})[gi]
           idxs == GroupEdits(edits, key, 1)
           full == FullPath(key)
           exists == PathExists(fs, dirs, full)
           doBackup == create_backups /\ exists
           bpath == backup_dir \o <<BackupName(PathName(full), clock)>>
           backupFails == doBackup /\ (io = "backup" \/ full \in dirs
                                       \/ backup_dir \notin dirs \/ bpath \in dirs)
           fs1 == IF doBackup /\ ~backupFails THEN WriteFile(fs, bpath, fs[full]) ELSE fs
           readFails == exists /\ (io = "read" \/ full \in dirs)
           content0 == IF full \in DOMAIN fs1 THEN fs1[full] ELSE <<>>
           st0 == [content |-> content0, edits |-> edits, applied |-> applied,
                   failed |-> failed, seen |-> seen, exc |-> readFails]
           st1 == RunGroup(st0, idxs)
           doWrite == ~st1.exc /\ AnySuccess(st1.edits, idxs)
           mkdirFails == \E a \in Ancestors(full) : a \in DOMAIN fs1
           dirs1 == IF doWrite /\ ~mkdirFails THEN MkdirParents(dirs, full) ELSE dirs
           openFails == mkdirFails \/ full \in dirs1 \/ PathParent(full) \notin dirs1
                        \/ io = "write"
           fs2 == IF doWrite /\ ~openFails
                  THEN WriteFile(fs1, full, IF st1.content = NoneStr THEN <<>> ELSE st1.content)
                  ELSE fs1
           exc == st1.exc \/ (doWrite /\ (openFails \/ st1.content = NoneStr))
           st2 == IF exc THEN MarkAllFailed(st1, idxs) ELSE st1
       IN /\ \/ io = "none"
             \/ io = "backup" /\ doBackup
             \/ io = "read" /\ exists /\ ~backupFails
             \/ io = "write" /\ doWrite
          /\ IF backupFails
             THEN /\ pc' = "raised"
                  /\ io_failed' = (io_failed \/ io = "backup")
                  /\ UNCHANGED <<fs, dirs, edits, gi, applied, failed, backup_path, seen, events>>
             ELSE /\ fs' = fs2
                  /\ dirs' = dirs1
                  /\ edits' = st2.edits
                  /\ applied' = st2.applied
                  /\ seen' = st2.seen
                  /\ io_failed' = (io_failed \/ io # "none")
                  /\ failed' = st2.failed
                  /\ backup_path' = IF doBackup THEN bpath ELSE backup_path
                  /\ events' = IF doBackup
                               THEN Append(events, [src |-> full, dst |-> bpath, content |-> fs[full]])
                               ELSE events
                  /\ gi' = gi + 1
                  /\ pc' = pc
    /\ UNCHANGED <<clock, create_backups, fs0, dirs0, calls, rb, inputs, files, sel, val, scores, cleanVars, indexVars, appVars>>

\* the return of apply_edits: EditResult(success, applied, failed, backup_path)
ApplyEditsReturn ==
    /\ pc = "running"
    /\ gi > Len(GroupKeys(edits, {}))
    /\ pc' = "returned"
    /\ UNCHANGED <<fs, dirs, clock, create_backups, edits, gi, applied, failed,
                   backup_path, fs0, dirs0, seen, io_failed, events, calls, rb, inputs, files, sel, val, scores, cleanVars, indexVars, appVars>>

\* EditResult.success
ResultSuccess == Len(failed) = 0

\* CodeEditor.rollback
Rollback(bp) ==
    /\ pc = "returned"
    /\ ~rb.called
    /\ LET original_name == SplitFirst(PathName(bp), BackupMarker)
           original_path == PathParent(bp) \o <<original_name>>
           copyFails == bp \in dirs \/ original_path \in dirs \/ original_path = bp
                        \/ PathParent(bp) \notin dirs
       IN IF ~PathExists(fs, dirs, bp) \/ copyFails
          THEN /\ rb' = [called |-> TRUE, path |-> bp, ok |-> FALSE]
               /\ fs' = fs
          ELSE /\ rb' = [called |-> TRUE, path |-> bp, ok |-> TRUE]
               /\ fs' = WriteFile(fs, original_path, fs[bp])
    /\ UNCHANGED <<dirs, clock, create_backups, pc, edits, gi, applied, failed,
                   backup_path, fs0, dirs0, seen, io_failed, events, calls, inputs, files, sel, val, scores, cleanVars, indexVars, appVars>>

\* a second of wall-clock time passes
Tick ==
    /\ clock < MaxClock
    /\ clock' = clock + 1
    /\ UNCHANGED <<fs, dirs, create_backups, pc, edits, gi, applied, failed,
                   backup_path, fs0, dirs0, seen, io_failed, events, calls, rb, inputs, files, sel, val, scores, cleanVars, indexVars, appVars>>

----------------------------------------------------------------------------
(* The edit engine on a repository *)

NoSel == [called |-> FALSE]
NoVal == [called |-> FALSE]
NoClean == [called |-> FALSE]

\* None for project_type
NoneType == "<None>"

\* RepositoryIndexer.__init__: no files, no project type, no dependencies
NewIndexer == [files |-> <<>>, project_type |-> NoneType, dependencies |-> <<>>]

\* the cache file does not exist
NoCache == [exists |-> FALSE]

NotPersisted == [saved |-> FALSE]

MaxWorkflows == 2
Workflows == 1..MaxWorkflows

\* a thread that create_ticket has not started
NoWorkflow == [pc |-> "idle", ticket |-> "", project |-> "", queue |-> 0,
               indexer |-> 0, pr_url |-> FALSE]

\* the projects of the store, each connected to a repository of its own
Projects == {"p1", "p2"}
RepoOf(project_id) == IF project_id = "p1" THEN "r1" ELSE "r2"

\* the threads that call the project manager directly, and one that has not
\* called yet
MaxCallers == 3
Callers == 1..MaxCallers
NoCaller == [pc |-> "idle", project_id |-> "", projects |-> <<>>]

\* the application before any ticket: no workflow, no queue, no cached
\* indexer, the projects without tickets, nobody inside the project manager
AppIdle ==
    /\ wf = [w \in Workflows |-> NoWorkflow]
    /\ ticket_queues = <<>>
    /\ queues = <<>>
    /\ repo_indexers = <<>>
    /\ store = [p \in Projects |-> <<>>]
    /\ callers = [c \in Callers |-> NoCaller]

\* `on` is the set of the two model files that exist at the start
InitFiles(on) ==
    [p \in {FullPath(q) : q \in on} |->
        IF p = FullPath(PA) THEN ThreeLines ELSE OneLine]

\* the state after CodeEditor(repo_path, create_backups) on a repository
\* holding the files `on`
InitEditor(on, universe, flags) ==
    /\ create_backups \in flags
    /\ fs = InitFiles(on)
    /\ dirs = {<<>>, repo_path, <<RX>>}
              \cup {PathParent(FullPath(q)) : q \in on}
              \cup (IF create_backups THEN {backup_dir} ELSE {})
    /\ clock = 0
    /\ pc = "idle"
    /\ edits = <<>>
    /\ gi = 1
    /\ applied = <<>>
    /\ failed = <<>>
    /\ backup_path = NoPath
    /\ fs0 = fs
    /\ dirs0 = dirs
    /\ seen = <<>>
    /\ io_failed = FALSE
    /\ events = <<>>
    /\ calls = 0
    /\ rb = NoRollback
    /\ inputs = universe
    /\ scores = <<>>
    /\ mtime = <<>>
    /\ cl = NoClean
    /\ ix = NewIndexer
    /\ cache_file = NoCache
    /\ scans = <<>>
    /\ persisted = NotPersisted
    /\ gen = 0
    /\ AppIdle

Init ==
    /\ \E on \in {{PA}, {PA, PB}} : InitEditor(on, EditUniverse, BOOLEAN)
    /\ files = <<>>
    /\ sel = NoSel
    /\ val = NoVal

InitLines ==
    /\ \E on \in {{}, {PA}} : InitEditor(on, LineEdits, BOOLEAN)
    /\ files = <<>>
    /\ sel = NoSel
    /\ val = NoVal

\* the backup paths a caller may pass to rollback
RollbackArgs == {backup_path} \cup {events[i].dst : i \in 1..Len(events)}
                \cup {backup_dir \o <<BackupName(FX, MaxClock + 1)>>}

Next ==
    \/ \E batch \in Batches : ApplyEditsBegin(batch)
    \/ \E io \in IOFailures : ApplyEditsFile(io)
    \/ ApplyEditsReturn
    \/ \E bp \in RollbackArgs : Rollback(bp)
    \/ Tick

Spec == Init /\ [][Next]_vars

SpecLines == InitLines /\ [][Next]_vars

----------------------------------------------------------------------------
(* Properties of the edit engine *)

Count(q, x) == Cardinality({k \in 1..Len(q) : q[k] = x})

\* a file the glob '*.backup.*' of the backup directory matches
IsBackupFile(p) ==
    /\ Len(p) > 0
    /\ PathParent(p) = backup_dir
    /\ Contains(BackupMarker, PathName(p))

\* the file edit i of the current call targets
Target(i) == FullPath(edits[i].file_path)

\* the edits of the current call that target the same file as edit i
GroupOf(i) == {j \in 1..Len(edits) : Target(j) = Target(i)}

\* whether some edit targeting file t is in the outcome's applied list
AppliedOn(t) == \E k \in 1..Len(applied) : Target(applied[k]) = t

\* whether file t is on disk exactly as it was when the call began
FileUnchanged(t) ==
    /\ (t \in DOMAIN fs) <=> (t \in DOMAIN fs0)
    /\ t \in DOMAIN fs => fs[t] = fs0[t]

\* whether the edit carries the fields its operation reads
HasFields(e) ==
    CASE e.operation = "full_replace" -> e.new_content # NoneStr
      [] e.operation = "replace" -> e.old_content # NoneStr /\ e.new_content # NoneStr
      [] e.operation = "insert" -> e.new_content # NoneStr /\ e.line_start # NoneInt
      [] e.operation = "delete" -> e.line_start # NoneInt /\ e.line_end # NoneInt
      [] OTHER -> TRUE

\* whether processing the file of edit i raised inside the try block for a
\* reason the batch or the environment explains
GroupRaised(i) == io_failed \/ \E j \in GroupOf(i) : ~HasFields(edits[j])

\* whether edit i met working content it could act on
Reached(i) == seen[i] # NotReached /\ seen[i] # NoneStr

(* C2: after apply_edits changed an existing file F with backups enabled and *)
(* returned backup path B, rollback(B) returns true and F has the content it *)
(* had before the call.                                                      *)
C2_RollbackRestoresFile ==
    (pc = "returned" /\ create_backups /\ rb.called /\ backup_path # NoPath
        /\ rb.path = backup_path /\ Len(events) > 0)
    => LET F == events[Len(events)].src
       IN F \in DOMAIN fs0 => (rb.ok /\ F \in DOMAIN fs /\ fs[F] = fs0[F])

(* C3: when apply_edits returns, every submitted edit is exactly once in     *)
(* exactly one of the applied and failed lists, and every edit in the        *)
(* applied list has its success flag true.                                   *)
C3_EachEditOneTerminalState ==
    pc = "returned" =>
        \A i \in 1..Len(edits) :
            /\ Count(applied, i) + Count(failed, i) = 1
            /\ Count(applied, i) = 1 => edits[i].success

(* C4: apply_edits never raises, and when it returns every edit of the batch *)
(* is reported in the outcome.                                               *)
C4_ApplyEditsNeverRaises ==
    /\ pc # "raised"
    /\ pc = "returned" =>
          \A i \in 1..Len(edits) : Count(applied, i) + Count(failed, i) >= 1

(* C5: with backups enabled, when apply_edits returns, every file that       *)
(* existed before the call and whose content the call changed has a backup   *)
(* of its name in the backup directory holding its content before the call.  *)
C5_ChangedFilesHaveBackup ==
    (pc = "returned" /\ create_backups) =>
        \A F \in DOMAIN fs0 :
            (PathParent(F) # backup_dir /\ F \in DOMAIN fs /\ fs[F] # fs0[F])
            => \E b \in DOMAIN fs :
                  /\ IsBackupFile(b)
                  /\ SplitFirst(PathName(b), BackupMarker) = PathName(F)
                  /\ fs[b] = fs0[F]

(* C6: a backup file, once written, is never overwritten or removed by a     *)
(* later backup event.                                                       *)
C6_BackupsNeverOverwritten ==
    [][\A b \in DOMAIN fs :
          IsBackupFile(b) => (b \in DOMAIN fs' /\ fs'[b] = fs[b])]_vars

(* C8, as stated: a replace edit whose old content is absent from the        *)
(* content it is applied to is reported failed with the not-found reason and *)
(* the file's bytes are unchanged after apply_edits.                         *)
C8_AbsentOldLeavesFileUnchanged ==
    pc = "returned" =>
        \A i \in 1..Len(edits) :
            (edits[i].operation = "replace" /\ edits[i].old_content # NoneStr
                /\ Reached(i) /\ ~Contains(edits[i].old_content, seen[i]))
            => /\ ~edits[i].success
               /\ Count(failed, i) >= 1
               /\ edits[i].error = "not_found"
               /\ FileUnchanged(Target(i))

(* C8, amended: such an edit is reported failed and never applied; its       *)
(* reason is not-found unless an exception raised while its file is          *)
(* processed replaces it; the file's bytes are unchanged when no edit        *)
(* targeting that file is in the applied list.                               *)
C8_AbsentOldFails ==
    pc = "returned" =>
        \A i \in 1..Len(edits) :
            (edits[i].operation = "replace" /\ edits[i].old_content # NoneStr
                /\ Reached(i) /\ ~Contains(edits[i].old_content, seen[i]))
            => /\ ~edits[i].success
               /\ Count(failed, i) >= 1
               /\ Count(applied, i) = 0
               /\ \/ edits[i].error = "not_found"
                  \/ edits[i].error = "exception" /\ GroupRaised(i)
               /\ ~AppliedOn(Target(i)) => FileUnchanged(Target(i))

C8_Witness ==
    /\ pc = "returned"
    /\ \E i \in 1..Len(edits) :
          /\ edits[i].operation = "replace"
          /\ Reached(i)
          /\ ~Contains(edits[i].old_content, seen[i])
          /\ edits[i].error = "not_found"
          /\ Target(i) \in DOMAIN fs0
          /\ ~AppliedOn(Target(i))
          /\ FileUnchanged(Target(i))

(* C9, as stated: an insert edit succeeds only if its index is in            *)
(* [0, lineCount]; outside that range it is reported failed with the         *)
(* invalid-index reason and the file's bytes are unchanged.                  *)
C9_BadIndexLeavesFileUnchanged ==
    pc = "returned" =>
        \A i \in 1..Len(edits) :
            (edits[i].operation = "insert" /\ edits[i].line_start # NoneInt /\ Reached(i))
            => LET n == Len(Split(seen[i], NL))
                   inRange == 0 <= edits[i].line_start /\ edits[i].line_start <= n
               IN /\ edits[i].success => inRange
                  /\ ~inRange => /\ ~edits[i].success
                                 /\ Count(failed, i) >= 1
                                 /\ edits[i].error = "invalid_line"
                                 /\ FileUnchanged(Target(i))

(* C9, amended: an insert edit succeeds only if its index is in              *)
(* [0, lineCount] of the working content; outside that range it is reported  *)
(* failed and never applied, with the invalid-index reason unless an         *)
(* exception raised while its file is processed replaces it, and the file's  *)
(* bytes are unchanged when no edit targeting that file is in the applied    *)
(* list.                                                                     *)
C9_BadIndexFails ==
    pc = "returned" =>
        \A i \in 1..Len(edits) :
            (edits[i].operation = "insert" /\ edits[i].line_start # NoneInt /\ Reached(i))
            => LET n == Len(Split(seen[i], NL))
                   inRange == 0 <= edits[i].line_start /\ edits[i].line_start <= n
               IN /\ edits[i].success => inRange
                  /\ ~inRange => /\ ~edits[i].success
                                 /\ Count(failed, i) >= 1
                                 /\ Count(applied, i) = 0
                                 /\ \/ edits[i].error = "invalid_line"
                                    \/ edits[i].error = "exception" /\ GroupRaised(i)
                                 /\ ~AppliedOn(Target(i)) => FileUnchanged(Target(i))

C9_Witness ==
    /\ pc = "returned"
    /\ \E i \in 1..Len(edits) :
          /\ edits[i].operation = "insert"
          /\ Reached(i)
          /\ Len(Split(seen[i], NL)) = 3
          /\ edits[i].line_start = 8
          /\ edits[i].error = "invalid_line"
          /\ Target(i) \in DOMAIN fs0
          /\ FileUnchanged(Target(i))

----------------------------------------------------------------------------
(* The edit engine on edits that lack a field *)

\* the edits callers submit in runs about when a file is written: one that
\* succeeds, one whose old content is absent from both model contents, and a
\* full_replace constructed without new_content
WriteEdits ==
    { NewEdit(PA, "full_replace", NoneStr, <<"b">>, NoneInt, NoneInt),
      NewEdit(PA, "replace", <<"a", "a">>, <<"b">>, NoneInt, NoneInt),
      NewEdit(PA, "full_replace", NoneStr, NoneStr, NoneInt, NoneInt) }

InitWrite ==
    /\ \E on \in {{}, {PA}} : InitEditor(on, WriteEdits, BOOLEAN)
    /\ files = <<>>
    /\ sel = NoSel
    /\ val = NoVal

SpecWrite == InitWrite /\ [][Next]_vars

(* C11: when apply_edits returns, a target file of the batch some edit of    *)
(* whose group succeeded is on disk, and a target file every edit of whose   *)
(* group failed has the bytes and the existence it had before the call.      *)
C11_WrittenIffSomeEditSucceeded ==
    pc = "returned" =>
        \A i \in 1..Len(edits) :
            /\ (\E j \in GroupOf(i) : edits[j].success) => Target(i) \in DOMAIN fs
            /\ (\A j \in GroupOf(i) : ~edits[j].success) => FileUnchanged(Target(i))

----------------------------------------------------------------------------
(* SmartContextSelector: text handling *)

Letters == {"a", "b", "c", "d", "e", "f", "g", "h", "i", "j", "k", "l", "m",
            "n", "o", "p", "q", "r", "s", "t", "u", "v", "w", "x", "y", "z"}
UpperLetters == {"A", "B", "C", "D", "E", "F", "G", "H", "I", "J", "K", "L", "M",
                 "N", "O", "P", "Q", "R", "S", "T", "U", "V", "W", "X", "Y", "Z"}
Digits == {"0", "1", "2", "3", "4", "5", "6", "7", "8", "9"}

UpperSeq == <<"A", "B", "C", "D", "E", "F", "G", "H", "I", "J", "K", "L", "M",
             "N", "O", "P", "Q", "R", "S", "T", "U", "V", "W", "X", "Y", "Z">>
LowerSeq == <<"a", "b", "c", "d", "e", "f", "g", "h", "i", "j", "k", "l", "m",
             "n", "o", "p", "q", "r", "s", "t", "u", "v", "w", "x", "y", "z">>

\* str.lower(), one character
LowerChar(ch) ==
    IF ch \in UpperLetters
    THEN LowerSeq[CHOOSE k \in 1..26 : UpperSeq[k] = ch]
    ELSE ch

\* str.lower()
Lower(s) == [k \in 1..Len(s) |-> LowerChar(s[k])]

\* the regular expression classes \w and [a-zA-Z_]
IsWordChar(ch) == ch \in Letters \cup UpperLetters \cup Digits \cup {"_"}
IsStartChar(ch) == ch \in Letters \cup UpperLetters \cup {"_"}

\* \b before position k of s (k in 1..Len(s)+1)
Boundary(s, k) ==
    (k > 1 /\ IsWordChar(s[k - 1])) # (k <= Len(s) /\ IsWordChar(s[k]))

\* the end of the match of [a-zA-Z_][\w-]*\b that starts at position k:
\* the longest run of [\w-] that ends at a \b
MatchEnd(s, k) ==
    LET inRun(j) == \A m \in (k + 1)..j : IsWordChar(s[m]) \/ s[m] = "-"
        ends == {j \in k..Len(s) : inRun(j) /\ Boundary(s, j + 1)}
    IN CHOOSE j \in ends : \A m \in ends : m <= j

\* re.findall(r'\b[a-zA-Z_][\w-]*\b', s), scanning from position k
RECURSIVE FindAllWords(_, _)
FindAllWords(s, k) ==
    IF k > Len(s) THEN <<>>
    ELSE IF Boundary(s, k) /\ IsStartChar(s[k])
         THEN <<SubSeq(s, k, MatchEnd(s, k))>> \o FindAllWords(s, MatchEnd(s, k) + 1)
         ELSE FindAllWords(s, k + 1)

\* str.count(sub) for a non-empty sub: occurrences that do not overlap
RECURSIVE CountOcc(_, _)
CountOcc(sub, s) ==
    LET k == IndexOf(sub, s)
    IN IF k = 0 THEN 0 ELSE 1 + CountOcc(sub, SubSeq(s, k + Len(sub), Len(s)))

\* str(Path(s).parent) for a relative path string without '.' or '..'
RECURSIVE LastSlash(_, _)
LastSlash(s, k) == IF k = 0 THEN 0 ELSE IF s[k] = "/" THEN k ELSE LastSlash(s, k - 1)

ParentStr(s) ==
    LET k == LastSlash(s, Len(s))
    IN IF k = 0 THEN <<".">> ELSE IF k = 1 THEN <<"/">> ELSE SubSeq(s, 1, k - 1)

stop_words ==
    { <<"t", "h", "e">>, <<"a">>, <<"a", "n">>, <<"a", "n", "d">>,
      <<"o", "r">>, <<"b", "u", "t">>, <<"i", "n">>, <<"o", "n">>,
      <<"a", "t">>, <<"t", "o">>, <<"f", "o", "r">>, <<"o", "f">>,
      <<"w", "i", "t", "h">>, <<"b", "y">>, <<"f", "r", "o", "m">>,
      <<"a", "s">>, <<"i", "s">>, <<"w", "a", "s">>, <<"a", "r", "e">>,
      <<"w", "e", "r", "e">>, <<"b", "e", "e", "n">>, <<"b", "e">>,
      <<"h", "a", "v", "e">>, <<"h", "a", "s">>, <<"h", "a", "d">>,
      <<"d", "o">>, <<"d", "o", "e", "s">>, <<"d", "i", "d">>,
      <<"w", "i", "l", "l">>, <<"w", "o", "u", "l", "d">>,
      <<"s", "h", "o", "u", "l", "d">>, <<"c", "o", "u", "l", "d">>,
      <<"c", "a", "n">>, <<"m", "a", "y">>, <<"m", "i", "g", "h", "t">>,
      <<"m", "u", "s", "t">>, <<"t", "h", "i", "s">>, <<"t", "h", "a", "t">>,
      <<"t", "h", "e", "s", "e">>, <<"t", "h", "o", "s", "e">>, <<"i">>,
      <<"y", "o", "u">>, <<"h", "e">>, <<"s", "h", "e">>, <<"i", "t">>,
      <<"w", "e">>, <<"t", "h", "e", "y">>, <<"c", "r", "e", "a", "t", "e">>,
      <<"a", "d", "d">>, <<"u", "p", "d", "a", "t", "e">>,
      <<"d", "e", "l", "e", "t", "e">>, <<"m", "a", "k", "e">>,
      <<"b", "u", "i", "l", "d">>,
      <<"i", "m", "p", "l", "e", "m", "e", "n", "t">> }

edit_keywords ==
    { <<"e", "d", "i", "t">>, <<"m", "o", "d", "i", "f", "y">>,
      <<"u", "p", "d", "a", "t", "e">>, <<"c", "h", "a", "n", "g", "e">>,
      <<"f", "i", "x">>, <<"r", "e", "f", "a", "c", "t", "o", "r">> }

create_keywords ==
    { <<"c", "r", "e", "a", "t", "e">>, <<"a", "d", "d">>,
      <<"b", "u", "i", "l", "d">>,
      <<"i", "m", "p", "l", "e", "m", "e", "n", "t">>, <<"n", "e", "w">> }

bug_keywords ==
    { <<"b", "u", "g">>, <<"e", "r", "r", "o", "r">>, <<"f", "i", "x">> }

style_keywords ==
    { <<"s", "t", "y", "l", "e">>, <<"c", "s", "s">>,
      <<"d", "e", "s", "i", "g", "n">>, <<"u", "i">>,
      <<"l", "a", "y", "o", "u", "t">> }

important_patterns ==
    { <<"c", "o", "n", "f", "i", "g">>,
      <<"p", "a", "c", "k", "a", "g", "e", ".", "j", "s", "o", "n">>,
      <<"t", "s", "c", "o", "n", "f", "i", "g">>,
      <<"w", "e", "b", "p", "a", "c", "k">>, <<"v", "i", "t", "e">>,
      <<"n", "e", "x", "t", ".", "c", "o", "n", "f", "i", "g">>,
      <<"t", "a", "i", "l", "w", "i", "n", "d", ".", "c", "o", "n", "f", "i", "g">>,
      <<"u", "t", "i", "l", "s">>, <<"h", "e", "l", "p", "e", "r", "s">>,
      <<"c", "o", "n", "s", "t", "a", "n", "t", "s">>,
      <<"t", "y", "p", "e", "s">> }

\* _extract_keywords: the filter and dedupe loop over the words found
RECURSIVE FilterWords(_, _)
FilterWords(words, known) ==
    IF Len(words) = 0 THEN <<>>
    ELSE IF Len(Head(words)) > 2 /\ Head(words) \notin stop_words /\ Head(words) \notin known
         THEN <<Head(words)>> \o FilterWords(Tail(words), known \cup {Head(words)})
         ELSE FilterWords(Tail(words), known)

\* _extract_keywords
ExtractKeywords(text) == FilterWords(FindAllWords(Lower(text), 1), {})

\* _detect_task_type
DetectTaskType(description) ==
    LET d == Lower(description)
    IN IF \E kw \in edit_keywords : Contains(kw, d) THEN "edit"
       ELSE IF \E kw \in create_keywords : Contains(kw, d) THEN "create"
       ELSE IF \E kw \in bug_keywords : Contains(kw, d) THEN "bugfix"
       ELSE IF \E kw \in style_keywords : Contains(kw, d) THEN "style"
       ELSE "general"

\* _get_relevant_extensions
GetRelevantExtensions(task_type, keywords) ==
    LET has(ws) == \E kw \in ws : kw \in Range(keywords)
        byKeyword ==
            (IF has({<<"h", "t", "m", "l">>, <<"p", "a", "g", "e">>,
                    <<"t", "e", "m", "p", "l", "a", "t", "e">>})
             THEN {".html", ".css", ".js"} ELSE {})
            \cup (IF has({<<"s", "t", "y", "l", "e">>, <<"c", "s", "s">>,
                          <<"d", "e", "s", "i", "g", "n">>})
                  THEN {".css", ".scss", ".sass", ".less"} ELSE {})
            \cup (IF has({<<"s", "c", "r", "i", "p", "t">>,
                          <<"j", "a", "v", "a", "s", "c", "r", "i", "p", "t">>,
                          <<"f", "u", "n", "c", "t", "i", "o", "n">>})
                  THEN {".js", ".jsx", ".ts", ".tsx"} ELSE {})
            \cup (IF has({<<"c", "o", "m", "p", "o", "n", "e", "n", "t">>,
                          <<"r", "e", "a", "c", "t">>, <<"v", "u", "e">>})
                  THEN {".jsx", ".tsx", ".vue"} ELSE {})
        byType ==
            IF task_type = "style" THEN {".css", ".scss", ".sass", ".html"}
            ELSE IF task_type = "create"
                 THEN {".html", ".css", ".js", ".jsx", ".ts", ".tsx"}
            ELSE {}
        extensions == byKeyword \cup byType
    IN IF extensions = {} THEN {".html", ".css", ".js"} ELSE extensions

\* _is_important_file
IsImportantFile(filename) ==
    \E pattern \in important_patterns : Contains(pattern, Lower(filename))

----------------------------------------------------------------------------
(* SmartContextSelector: scoring and selection *)

MAX_FILES == 10
MAX_TOKENS == 8000
SMALL_FILE_BYTES == 10000

W_filename_exact == 10
W_filename_partial == 5
W_content_high == 8
W_content_medium == 4
W_content_low == 1
W_extension_match == 3
W_path_similarity == 2
W_small_file_bonus == 1
W_important_file == 2

\* a FileInfo of the catalog
FileInfo(rel, size, ext, code, content) ==
    [relative_path |-> rel, size |-> size, extension |-> ext,
     is_code |-> code, content |-> content]

\* the sum of content_lower.count(keyword) over the keywords
RECURSIVE KeywordDensity(_, _)
KeywordDensity(keywords, content_lower) ==
    IF Len(keywords) = 0 THEN 0
    ELSE CountOcc(Head(keywords), content_lower)
         + KeywordDensity(Tail(keywords), content_lower)

TargetMatchesNever(filename, target_files) == FALSE

\* factor 1 of _score_file: an explicit target is a substring of the filename
TargetMatches(filename, target_files) ==
    \E k \in 1..Len(target_files) : Contains(Lower(target_files[k]), filename)

\* factor 5 of _score_file: an explicit target has the file's parent directory
SameDirectory(filename, task_type, target_files) ==
    /\ task_type = "edit"
    /\ \E k \in 1..Len(target_files) : ParentStr(target_files[k]) = ParentStr(filename)

\* _score_file: the score
ScoreFile(file_info, keywords, task_type, target_files) ==
    LET filename == Lower(file_info.relative_path)
        content == IF file_info.content = NoneStr THEN <<>> ELSE file_info.content
        density == KeywordDensity(keywords, Lower(content))
    IN (IF TargetMatches(filename, target_files) THEN W_filename_exact ELSE 0)
       + (IF \E k \in 1..Len(keywords) : Contains(keywords[k], filename)
          THEN W_filename_partial ELSE 0)
       + (IF Len(content) = 0 THEN 0
          ELSE IF density > 10 THEN W_content_high
          ELSE IF density > 3 THEN W_content_medium
          ELSE IF density > 0 THEN W_content_low
          ELSE 0)
       + (IF file_info.extension \in GetRelevantExtensions(task_type, keywords)
          THEN W_extension_match ELSE 0)
       + (IF SameDirectory(filename, task_type, target_files) THEN W_path_similarity ELSE 0)
       + (IF file_info.size < SMALL_FILE_BYTES THEN W_small_file_bonus ELSE 0)
       + (IF IsImportantFile(filename) THEN W_important_file ELSE 0)

\* the loop of select_context that builds scored_files
RECURSIVE ScoreAll(_, _, _, _)
ScoreAll(catalog, keywords, task_type, target_files) ==
    IF Len(catalog) = 0 THEN <<>>
    ELSE LET f == Head(catalog)
             score == ScoreFile(f, keywords, task_type, target_files)
             rest == ScoreAll(Tail(catalog), keywords, task_type, target_files)
         IN IF f.is_code /\ score > 0
            THEN <<[file_info |-> f, score |-> score]>> \o rest
            ELSE rest

RECURSIVE InsertByScoreBeforeEqual(_, _)
InsertByScoreBeforeEqual(q, x) ==
    IF Len(q) = 0 THEN <<x>>
    ELSE IF Head(q).score <= x.score THEN <<x>> \o q
    ELSE <<Head(q)>> \o InsertByScoreBeforeEqual(Tail(q), x)

RECURSIVE InsertByScoreAscending(_, _)
InsertByScoreAscending(q, x) ==
    IF Len(q) = 0 THEN <<x>>
    ELSE IF Head(q).score > x.score THEN <<x>> \o q
    ELSE <<Head(q)>> \o InsertByScoreAscending(Tail(q), x)

\* where list.sort(reverse=True) puts x among the already sorted q: after
\* every element that is not less than x
RECURSIVE InsertByScore(_, _)
InsertByScore(q, x) ==
    IF Len(q) = 0 THEN <<x>>
    ELSE IF Head(q).score < x.score THEN <<x>> \o q
    ELSE <<Head(q)>> \o InsertByScore(Tail(q), x)

\* scored_files.sort(reverse=True) with RelevantFile.__lt__: stable, by score
RECURSIVE SortByScore(_)
SortByScore(q) ==
    IF Len(q) = 0 THEN <<>>
    ELSE InsertByScore(SortByScore(SubSeq(q, 1, Len(q) - 1)), q[Len(q)])

\* the token estimate of _select_within_budget
FileTokens(file_info) == file_info.size \div 4

RECURSIVE SelectLoopStrict(_, _, _, _, _, _)
SelectLoopStrict(scored, k, selected, total_tokens, max_files, max_tokens) ==
    IF k > Len(scored) \/ Len(selected) >= max_files THEN selected
    ELSE LET file_tokens == FileTokens(scored[k].file_info)
         IN IF total_tokens + file_tokens > max_tokens
            THEN selected
            ELSE SelectLoopStrict(scored, k + 1, Append(selected, scored[k]),
                                  total_tokens + file_tokens, max_files, max_tokens)

\* _select_within_budget: the loop from position k on
RECURSIVE SelectLoop(_, _, _, _, _, _)
SelectLoop(scored, k, selected, total_tokens, max_files, max_tokens) ==
    IF k > Len(scored) \/ Len(selected) >= max_files THEN selected
    ELSE LET file_tokens == FileTokens(scored[k].file_info)
         IN IF total_tokens + file_tokens > max_tokens
            THEN (IF Len(selected) = 0 THEN Append(selected, scored[k]) ELSE selected)
            ELSE SelectLoop(scored, k + 1, Append(selected, scored[k]),
                            total_tokens + file_tokens, max_files, max_tokens)

\* _select_within_budget
SelectWithinBudget(scored, max_files, max_tokens) ==
    SelectLoop(scored, 1, <<>>, 0, max_files, max_tokens)

\* `max_files or self.MAX_FILES`: None and 0 both give the default
OrDefault(arg, default) == IF arg = NoneInt \/ arg = 0 THEN default ELSE arg

\* select_context, called once on the catalog of the run
SelectContext(task, target_files, max_files, max_tokens) ==
    /\ ~sel.called
    /\ LET keywords == ExtractKeywords(task)
           task_type == DetectTaskType(task)
           ranked == SortByScore(ScoreAll(files, keywords, task_type, target_files))
       IN sel' = [called |-> TRUE, task |-> task, target_files |-> target_files,
                  max_files |-> max_files, max_tokens |-> max_tokens,
                  task_type |-> task_type, ranked |-> ranked,
                  selected |-> SelectWithinBudget(ranked,
                                  OrDefault(max_files, MAX_FILES),
                                  OrDefault(max_tokens, MAX_TOKENS))]
    /\ UNCHANGED <<fs, dirs, clock, create_backups, pc, edits, gi, applied, failed,
                   backup_path, fs0, dirs0, seen, io_failed, events, calls, rb,
                   inputs, files, val, scores, cleanVars, indexVars, appVars>>

----------------------------------------------------------------------------
(* The selector on a catalog *)

MaxCatalog == 3

P_login == <<"s", "r", "c", "/", "l", "o", "g", "i", "n", ".", "j", "s">>
P_about == <<"s", "r", "c", "/", "a", "b", "o", "u", "t", ".", "j", "s">>
P_utils == <<"l", "i", "b", "/", "u", "t", "i", "l", "s", ".", "p", "y">>
P_notes == <<"n", "o", "t", "e", "s">>

C_login == <<"l", "o", "g", "i", "n", "(", ")", ";">>
C_about == <<"a", "b", "o", "u", "t">>

T_fix == <<"F", "i", "x", " ", "t", "h", "e", " ", "l", "o", "g", "i", "n", " ", "b", "u", "g">>
T_css == <<"a", "d", "d", " ", "c", "s", "s">>
T_none == <<>>

\* the files a catalog may hold: two small scripts, a large module whose
\* content is not loaded, and a file that is not code
CatalogFiles ==
    { FileInfo(P_login, 200, ".js", TRUE, C_login),
      FileInfo(P_about, 40, ".js", TRUE, C_about),
      FileInfo(P_utils, 40000, ".py", TRUE, NoneStr),
      FileInfo(P_notes, 40, "", FALSE, NoneStr) }

\* the catalogs: sequences of distinct files
Catalogs ==
    {c \in SeqsUpTo(CatalogFiles, MaxCatalog) :
        \A i, j \in 1..Len(c) : i # j => c[i] # c[j]}

Tasks == {T_fix, T_css, T_none}
TargetLists == {<<>>, <<<<"l", "o", "g", "i", "n", ".", "j", "s">>>>,
                <<<<"a", "b", "o", "u", "t", ".", "j", "s">>>>}
MaxFilesArgs == {NoneInt, 0, 1, 2, 3}
MaxTokensArgs == {NoneInt, 0, 10, 55, 60}

InitSelect ==
    /\ InitEditor({}, {}, {FALSE})
    /\ files \in Catalogs
    /\ sel = NoSel
    /\ val = NoVal

NextSelect ==
    \E task \in Tasks, target_files \in TargetLists,
       max_files \in MaxFilesArgs, max_tokens \in MaxTokensArgs :
        SelectContext(task, target_files, max_files, max_tokens)

SpecSelect == InitSelect /\ [][NextSelect]_vars

RECURSIVE SumTokens(_)
SumTokens(q) ==
    IF Len(q) = 0 THEN 0 ELSE FileTokens(Head(q).file_info) + SumTokens(Tail(q))

(* C1: select_context never returns more than max_files entries, and the     *)
(* token estimates of all returned entries but the first never sum to more   *)
(* than max_tokens.                                                          *)
C1_BudgetRespected ==
    (sel.called /\ sel.max_files # NoneInt /\ sel.max_tokens # NoneInt)
    => /\ Len(sel.selected) <= sel.max_files
       /\ Len(sel.selected) > 0 => SumTokens(Tail(sel.selected)) <= sel.max_tokens

\* whether p is a prefix of q
IsPrefix(p, q) == Len(p) <= Len(q) /\ SubSeq(q, 1, Len(p)) = p

----------------------------------------------------------------------------
(* _score_file called on one file with several target lists *)

MaxScoreCalls == 2

N_login == <<"l", "o", "g", "i", "n", ".", "j", "s">>
N_about == <<"a", "b", "o", "u", "t", ".", "j", "s">>
N_src == <<"s", "r", "c">>

\* _score_file as select_context calls it: keywords and task type from the task
ScoreFileCall(file_info, task, target_files) ==
    /\ Len(scores) < MaxScoreCalls
    /\ scores' = Append(scores,
                     [file_info |-> file_info, task |-> task, target_files |-> target_files,
                      score |-> ScoreFile(file_info, ExtractKeywords(task),
                                          DetectTaskType(task), target_files)])
    /\ UNCHANGED <<fs, dirs, clock, create_backups, pc, edits, gi, applied, failed,
                   backup_path, fs0, dirs0, seen, io_failed, events, calls, rb,
                   inputs, files, sel, val, cleanVars, indexVars, appVars>>

\* the target lists _score_file is given
ScoreTargets ==
    { <<>>, <<N_login>>, <<P_login>>, <<P_login, N_login>>, <<N_src>>, <<N_src, N_login>>,
      <<N_about>>, <<N_about, N_login>> }

ScoreTasks == {T_fix, T_none}

InitScore ==
    /\ InitEditor({}, {}, {FALSE})
    /\ files = <<>>
    /\ sel = NoSel
    /\ val = NoVal

NextScore ==
    \E file_info \in {f \in CatalogFiles : f.is_code}, task \in ScoreTasks,
       target_files \in ScoreTargets :
        ScoreFileCall(file_info, task, target_files)

SpecScore == InitScore /\ [][NextScore]_vars

\* the last component of a relative path
BaseName(rel) == SubSeq(rel, LastSlash(rel, Len(rel)) + 1, Len(rel))

\* call j is call i with one more target, the file's own name
AddsOwnName(i, j) ==
    /\ scores[i].file_info = scores[j].file_info
    /\ scores[i].task = scores[j].task
    /\ \E T \in {BaseName(scores[i].file_info.relative_path)} :
          scores[j].target_files = Append(scores[i].target_files, T)

(* C15, as stated: for any code file, task and target list, the file's score *)
(* with a target equal to the file's name in the list is strictly greater    *)
(* than its score for the same task and the list without that target.        *)
C15_TargetMatchRaisesScore ==
    \A i, j \in 1..Len(scores) :
        AddsOwnName(i, j) => scores[j].score > scores[i].score

(* C15, amended: the file's score with a target equal to the file's name in  *)
(* the list is strictly greater, by at least the explicit-mention weight,    *)
(* than its score for the same task and a target list none of whose targets  *)
(* occurs in the file's lower-cased relative path.                           *)
C15_FirstTargetMatchRaisesScore ==
    \A i, j \in 1..Len(scores) :
        (AddsOwnName(i, j)
            /\ \A k \in 1..Len(scores[i].target_files) :
                  ~Contains(Lower(scores[i].target_files[k]),
                            Lower(scores[i].file_info.relative_path)))
        => scores[j].score >= scores[i].score + W_filename_exact

C15_Witness ==
    \E i, j \in 1..Len(scores) :
        /\ AddsOwnName(i, j)
        /\ scores[i].target_files = <<N_about>>
        /\ scores[i].file_info.relative_path = P_login
        /\ scores[j].score > scores[i].score

----------------------------------------------------------------------------
(* The scenario of a login file and an about file *)

T_scenario == <<"f", "i", "x", " ", "t", "h", "e", " ", "l", "o", "g", "i", "n", " ", "b", "u", "g">>

\* about.js with eleven occurrences of a keyword of the task
C_bugs == <<"b", "u", "g", " ", "b", "u", "g", " ", "b", "u", "g", " ", "b", "u", "g", " ", "b", "u", "g", " ", "b", "u", "g", " ", "b", "u", "g", " ", "b", "u", "g", " ", "b", "u", "g", " ", "b", "u", "g", " ", "b", "u", "g", " ">>

\* the catalogs of the scenario: src/login.js and src/about.js in either
\* order, login.js unloaded, empty or small, about.js small or dense in keywords
ScenarioCatalogs ==
    { c \in UNION { {<<l, a>>, <<a, l>>} :
                      l \in { FileInfo(P_login, 600000, ".js", TRUE, NoneStr),
                              FileInfo(P_login, 0, ".js", TRUE, <<>>),
                              FileInfo(P_login, Len(C_login), ".js", TRUE, C_login) },
                      a \in { FileInfo(P_about, Len(C_about), ".js", TRUE, C_about),
                              FileInfo(P_about, Len(C_bugs), ".js", TRUE, C_bugs),
                              FileInfo(P_about, Len(C_login), ".js", TRUE, C_login) } } : TRUE }

InitScenario ==
    /\ InitEditor({}, {}, {FALSE})
    /\ files \in ScenarioCatalogs
    /\ sel = NoSel
    /\ val = NoVal

NextScenario ==
    \E max_files \in MaxFilesArgs, max_tokens \in MaxTokensArgs :
        SelectContext(T_scenario, <<N_login>>, max_files, max_tokens)

SpecScenario == InitScenario /\ [][NextScenario]_vars

\* the positions of a file in a list of results
PositionsOf(q, rel) == {k \in 1..Len(q) : q[k].file_info.relative_path = rel}

(* C16: for a catalog holding src/login.js and src/about.js, the task 'fix   *)
(* the login bug' and the target 'login.js', whatever the files contain: the *)
(* task type is edit, login.js scores strictly higher than about.js,         *)
(* login.js is selected, and about.js never precedes login.js.               *)
C16_LoginOutranksAbout ==
    sel.called =>
        /\ sel.task_type = "edit"
        /\ \A i, j \in 1..Len(files) :
              (files[i].relative_path = P_login /\ files[j].relative_path = P_about)
              => ScoreFile(files[i], ExtractKeywords(sel.task), sel.task_type, sel.target_files)
                 > ScoreFile(files[j], ExtractKeywords(sel.task), sel.task_type, sel.target_files)
        /\ PositionsOf(sel.selected, P_login) # {}
        /\ \A i \in PositionsOf(sel.selected, P_login), j \in PositionsOf(sel.selected, P_about) :
              i < j
        /\ \A i \in PositionsOf(sel.ranked, P_login), j \in PositionsOf(sel.ranked, P_about) :
              i < j

C16_Witness ==
    /\ sel.called
    /\ files[1].relative_path = P_about
    /\ files[1].content = C_bugs
    /\ files[2].content = NoneStr
    /\ Len(sel.ranked) = 2
    /\ sel.ranked[2].score = W_content_high + W_extension_match + W_small_file_bonus
    /\ Len(sel.selected) = 1
    /\ sel.selected[1].file_info.relative_path = P_login

----------------------------------------------------------------------------
(* CodeEditor.validate_edit *)

valid_ops == {"replace", "insert", "delete", "full_replace"}

\* (repo_path / file_path).resolve() on a tree without symbolic links
ResolvePath(file_path) == Normalize(<<>>, JoinRepo(file_path))

\* `str(full_path).startswith(str(self.repo_path))`
PathCheck(full_path) == StartsWith(PathStr(full_path), PathStr(repo_path))

FieldsCheckNone(e) == "ok"

\* the checks of the required fields, by operation
FieldsCheck(e) ==
    CASE e.operation = "replace" ->
            IF e.old_content = NoneStr \/ e.old_content = <<>>
               \/ e.new_content = NoneStr \/ e.new_content = <<>>
            THEN "replace_requires" ELSE "ok"
      [] e.operation = "insert" ->
            IF e.new_content = NoneStr \/ e.line_start = NoneInt
            THEN "insert_requires" ELSE "ok"
      [] e.operation = "delete" ->
            IF e.line_start = NoneInt \/ e.line_end = NoneInt
            THEN "delete_requires" ELSE "ok"
      [] e.operation = "full_replace" ->
            IF e.new_content = NoneStr THEN "full_replace_requires" ELSE "ok"
      [] OTHER -> "ok"

\* validate_edit: the reason it returns, "ok" standing for (True, None)
ValidateReason(e) ==
    IF e.file_path.abs THEN "must_be_relative"
    ELSE IF ~PathCheck(ResolvePath(e.file_path)) THEN "outside_repository"
    ELSE IF e.operation \notin valid_ops THEN "invalid_operation"
    ELSE FieldsCheck(e)

\* validate_edit, called once on the edit of the run
ValidateEdit(e) ==
    /\ ~val.called
    /\ val' = [called |-> TRUE, edit |-> e, valid |-> (ValidateReason(e) = "ok"),
               reason |-> ValidateReason(e)]
    /\ UNCHANGED <<fs, dirs, clock, create_backups, pc, edits, gi, applied, failed,
                   backup_path, fs0, dirs0, seen, io_failed, events, calls, rb,
                   inputs, files, sel, scores, cleanVars, indexVars, appVars>>

\* the target paths validate_edit is given
ValidatePaths ==
    { RelPath(<<DA, FX>>),              \* a/x
      RelPath(<<FX>>),                  \* x
      RelPath(<<>>),                    \* the empty path: the root itself
      RelPath(<<DA, UP, FX>>),          \* a/../x
      RelPath(<<DOT, DA, FX>>),         \* ./a/x
      RelPath(<<UP, R, FX>>),           \* ../r/x
      RelPath(<<UP, RX, FX>>),          \* ../rx/x: the sibling directory /rx
      RelPath(<<UP, RX>>),              \* ../rx
      RelPath(<<UP, DB, FX>>),          \* ../b/x
      RelPath(<<UP, UP, FX>>),          \* ../../x
      RelPath(<<DA, UP, UP, FX>>),      \* a/../../x
      AbsPath(<<R, FX>>),               \* /r/x
      AbsPath(<<DB, FX>>) }             \* /b/x

\* the operation and fields validate_edit is given, on path fp
ValidateShapes(fp) ==
    { NewEdit(fp, "full_replace", NoneStr, <<"b">>, NoneInt, NoneInt),
      NewEdit(fp, "full_replace", NoneStr, NoneStr, NoneInt, NoneInt),
      NewEdit(fp, "full_replace", NoneStr, <<>>, NoneInt, NoneInt),
      NewEdit(fp, "replace", <<"a">>, <<"b">>, NoneInt, NoneInt),
      NewEdit(fp, "replace", <<>>, <<"b">>, NoneInt, NoneInt),
      NewEdit(fp, "replace", <<"a">>, <<>>, NoneInt, NoneInt),
      NewEdit(fp, "replace", NoneStr, <<"b">>, NoneInt, NoneInt),
      NewEdit(fp, "replace", <<"a">>, NoneStr, NoneInt, NoneInt),
      NewEdit(fp, "insert", NoneStr, <<"b">>, 0, NoneInt),
      NewEdit(fp, "insert", NoneStr, <<"b">>, NoneInt, NoneInt),
      NewEdit(fp, "insert", NoneStr, NoneStr, 0, NoneInt),
      NewEdit(fp, "insert", NoneStr, <<>>, 0, NoneInt),
      NewEdit(fp, "delete", NoneStr, NoneStr, 0, 1),
      NewEdit(fp, "delete", NoneStr, NoneStr, 0, NoneInt),
      NewEdit(fp, "delete", NoneStr, NoneStr, NoneInt, 1),
      NewEdit(fp, "rename", NoneStr, <<"b">>, NoneInt, NoneInt) }

ValidateInputs == UNION {ValidateShapes(fp) : fp \in ValidatePaths}

InitValidate ==
    /\ InitEditor({PA}, {}, BOOLEAN)
    /\ files = <<>>
    /\ sel = NoSel
    /\ val = NoVal

NextValidate == \E e \in ValidateInputs : ValidateEdit(e)

SpecValidate == InitValidate /\ [][NextValidate]_vars

\* whether an absolute path lies in the repository root: the root's
\* components are its leading components
InsideRoot(p) ==
    Len(p) >= Len(repo_path) /\ SubSeq(p, 1, Len(repo_path)) = repo_path

(* C7: validate_edit reports an edit valid only if its path is relative and, *)
(* after normalization, resolves to a location inside the repository root.   *)
C7_ValidOnlyInsideRoot ==
    (val.called /\ val.valid)
    => /\ ~val.edit.file_path.abs
       /\ InsideRoot(Normalize(<<>>, JoinRepo(val.edit.file_path)))

\* whether an optional string field is present and not empty
NonEmpty(s) == s # NoneStr /\ s # <<>>

(* C19, as stated: validate_edit reports an edit valid only if its operation *)
(* is one of the four and every field the operation requires is present and  *)
(* non-empty: replace needs old and new content, insert new content and a    *)
(* line start, delete a line start and end, full_replace new content.        *)
C19_ValidOnlyWithNonEmptyFields ==
    (val.called /\ val.valid) =>
        LET e == val.edit
        IN /\ e.operation \in {"replace", "insert", "delete", "full_replace"}
           /\ e.operation = "replace" => NonEmpty(e.old_content) /\ NonEmpty(e.new_content)
           /\ e.operation = "insert" => NonEmpty(e.new_content) /\ e.line_start # NoneInt
           /\ e.operation = "delete" => e.line_start # NoneInt /\ e.line_end # NoneInt
           /\ e.operation = "full_replace" => NonEmpty(e.new_content)

(* C19, amended: validate_edit reports an edit valid only if its operation   *)
(* is one of the four and every field the operation requires is present:     *)
(* replace needs old and new content, both non-empty; insert needs new       *)
(* content, which may be empty, and a line start; delete needs a line start  *)
(* and end; full_replace needs new content, which may be empty.              *)
C19_ValidOnlyWithFieldsPresent ==
    (val.called /\ val.valid) =>
        LET e == val.edit
        IN /\ e.operation \in {"replace", "insert", "delete", "full_replace"}
           /\ e.operation = "replace" => NonEmpty(e.old_content) /\ NonEmpty(e.new_content)
           /\ e.operation = "insert" => e.new_content # NoneStr /\ e.line_start # NoneInt
           /\ e.operation = "delete" => e.line_start # NoneInt /\ e.line_end # NoneInt
           /\ e.operation = "full_replace" => e.new_content # NoneStr

C19_Witness ==
    /\ val.called
    /\ val.valid
    /\ val.edit.operation = "insert"
    /\ val.edit.new_content = <<>>
    /\ val.edit.line_start = 0

----------------------------------------------------------------------------
(* CodeEditor.cleanup_backups *)

MaxMtime == 1

\* the glob '*.backup.*' on a file name
GlobMatches(name) == Contains(BackupMarker, name)

\* `backup.name.split('.backup.')[0]`
OriginalOf(p) == SplitFirst(PathName(p), BackupMarker)

\* the orders in which the directory may list the files of S
Orders(S) ==
    {q \in [1..Cardinality(S) -> S] : \A i, j \in 1..Cardinality(S) : i # j => q[i] # q[j]}

\* backups_by_file[original]: the backups of a group, in listing order
RECURSIVE GroupBackups(_, _)
GroupBackups(listing, original) ==
    IF Len(listing) = 0 THEN <<>>
    ELSE (IF OriginalOf(Head(listing)) = original THEN <<Head(listing)>> ELSE <<>>)
         \o GroupBackups(Tail(listing), original)

RECURSIVE InsertByMtimeAscending(_, _, _)
InsertByMtimeAscending(q, x, mt) ==
    IF Len(q) = 0 THEN <<x>>
    ELSE IF mt[Head(q)] > mt[x] THEN <<x>> \o q
    ELSE <<Head(q)>> \o InsertByMtimeAscending(Tail(q), x, mt)

\* where the stable sort by st_mtime, newest first, puts x among the sorted q
RECURSIVE InsertByMtime(_, _, _)
InsertByMtime(q, x, mt) ==
    IF Len(q) = 0 THEN <<x>>
    ELSE IF mt[Head(q)] < mt[x] THEN <<x>> \o q
    ELSE <<Head(q)>> \o InsertByMtime(Tail(q), x, mt)

\* `backups.sort(key=lambda p: p.stat().st_mtime, reverse=True)`
RECURSIVE SortByMtime(_, _)
SortByMtime(q, mt) ==
    IF Len(q) = 0 THEN <<>>
    ELSE InsertByMtime(SortByMtime(SubSeq(q, 1, Len(q) - 1), mt), q[Len(q)], mt)

\* `backups[keep_latest:]`: a negative start counts from the end
SliceFrom(q, k) ==
    LET start == IF k < 0 THEN Max(Len(q) + k, 0) ELSE Min(k, Len(q))
    IN SubSeq(q, start + 1, Len(q))

\* the files cleanup_backups unlinks, given the listing of the glob
Unlinked(listing, mt, keep_latest) ==
    UNION { Range(SliceFrom(SortByMtime(GroupBackups(listing, original), mt), keep_latest)) :
              original \in {OriginalOf(p) : p \in Range(listing)} }

\* cleanup_backups, called once on the backup directory of the run
CleanupBackups(keep_latest, listing) ==
    /\ ~cl.called
    /\ Range(listing) = {p \in DOMAIN fs : PathParent(p) = backup_dir /\ GlobMatches(PathName(p))}
    /\ LET gone == IF backup_dir \in dirs THEN Unlinked(listing, mtime, keep_latest) ELSE {}
       IN /\ fs' = [p \in DOMAIN fs \ gone |-> fs[p]]
          /\ mtime' = [p \in DOMAIN mtime \ gone |-> mtime[p]]
    /\ cl' = [called |-> TRUE, keep_latest |-> keep_latest, fs |-> fs, mtime |-> mtime]
    /\ UNCHANGED <<dirs, clock, create_backups, pc, edits, gi, applied, failed,
                   backup_path, fs0, dirs0, seen, io_failed, events, calls, rb,
                   inputs, files, sel, val, scores, indexVars, appVars>>

\* the files a backup directory may hold: three backups of x, one of a, and
\* the file x that rollback leaves in the directory
BackupCandidates ==
    {backup_dir \o <<BackupName(FX, t)>> : t \in 0..2}
    \cup {backup_dir \o <<BackupName(DA, 0)>>, backup_dir \o <<FX>>}

KeepArgs == {-1, 0, 1, 2, 3}

InitCleanup ==
    /\ create_backups = TRUE
    /\ \E S \in SUBSET BackupCandidates :
          /\ fs = [p \in S |-> OneLine]
          /\ mtime \in [S -> 0..MaxMtime]
    /\ dirs = {<<>>, repo_path, backup_dir}
    /\ clock = 0
    /\ pc = "idle"
    /\ edits = <<>>
    /\ gi = 1
    /\ applied = <<>>
    /\ failed = <<>>
    /\ backup_path = NoPath
    /\ fs0 = fs
    /\ dirs0 = dirs
    /\ seen = <<>>
    /\ io_failed = FALSE
    /\ events = <<>>
    /\ calls = 0
    /\ rb = NoRollback
    /\ inputs = {}
    /\ files = <<>>
    /\ sel = NoSel
    /\ val = NoVal
    /\ scores = <<>>
    /\ cl = NoClean
    /\ ix = NewIndexer
    /\ cache_file = NoCache
    /\ scans = <<>>
    /\ persisted = NotPersisted
    /\ gen = 0
    /\ AppIdle

NextCleanup ==
    \E keep_latest \in KeepArgs, listing \in Orders({p \in DOMAIN fs : GlobMatches(PathName(p))}) :
        CleanupBackups(keep_latest, listing)

SpecCleanup == InitCleanup /\ [][NextCleanup]_vars

\* the backups of one original filename among the files f
BackupsOf(f, original) ==
    {p \in DOMAIN f : PathParent(p) = backup_dir /\ GlobMatches(PathName(p))
                      /\ OriginalOf(p) = original}

(* C18: after cleanup_backups(N) with N >= 0, for every original filename    *)
(* the number of its backups left is min(N, the number before), every backup *)
(* kept is at least as new as every deleted backup of the same group, and no *)
(* other file of the directory is removed or changed.                        *)
C18_KeepsNewestPerFile ==
    (cl.called /\ cl.keep_latest >= 0) =>
        /\ \A p \in DOMAIN fs : p \in DOMAIN cl.fs /\ fs[p] = cl.fs[p] /\ mtime[p] = cl.mtime[p]
        /\ \A p \in DOMAIN cl.fs : ~GlobMatches(PathName(p)) => p \in DOMAIN fs
        /\ \A original \in {OriginalOf(p) : p \in DOMAIN cl.fs} :
              LET before == BackupsOf(cl.fs, original)
                  left == BackupsOf(fs, original)
              IN /\ Cardinality(left) = Min(cl.keep_latest, Cardinality(before))
                 /\ \A k \in left, d \in before \ left : cl.mtime[k] >= cl.mtime[d]

C18_Witness ==
    /\ cl.called
    /\ cl.keep_latest = 1
    /\ Cardinality(BackupsOf(cl.fs, FX)) = 3
    /\ Cardinality(BackupsOf(fs, FX)) = 1
    /\ \E k \in BackupsOf(fs, FX), d \in BackupsOf(cl.fs, FX) : cl.mtime[k] > cl.mtime[d]
    /\ Cardinality(BackupsOf(cl.fs, DA)) = 1
    /\ Cardinality(BackupsOf(fs, DA)) = 1
    /\ backup_dir \o <<FX>> \in DOMAIN fs

----------------------------------------------------------------------------
(* RepositoryIndexer: names and file classification *)

IGNORE_DIRS ==
    {
    <<".", "g", "i", "t">>, <<".", "s", "v", "n">>, <<".", "h", "g">>,
    <<"n", "o", "d", "e", "_", "m", "o", "d", "u", "l", "e", "s">>, <<"_", "_", "p", "y", "c", "a", "c", "h", "e", "_", "_">>, <<".", "p", "y", "t", "e", "s", "t", "_", "c", "a", "c", "h", "e">>,
    <<"v", "e", "n", "v">>, <<"e", "n", "v">>, <<".", "v", "e", "n", "v">>,
    <<".", "e", "n", "v">>, <<"d", "i", "s", "t">>, <<"b", "u", "i", "l", "d">>,
    <<".", "n", "e", "x", "t">>, <<".", "n", "u", "x", "t">>, <<"c", "o", "v", "e", "r", "a", "g", "e">>,
    <<".", "c", "o", "v", "e", "r", "a", "g", "e">>, <<"h", "t", "m", "l", "c", "o", "v">>, <<".", "i", "d", "e", "a">>,
    <<".", "v", "s", "c", "o", "d", "e">>, <<".", "D", "S", "_", "S", "t", "o", "r", "e">>, <<"t", "m", "p">>,
    <<"t", "e", "m", "p">>, <<"c", "a", "c", "h", "e">> }

IGNORE_FILES ==
    {
    <<".", "D", "S", "_", "S", "t", "o", "r", "e">>, <<"p", "a", "c", "k", "a", "g", "e", "-", "l", "o", "c", "k", ".", "j", "s", "o", "n">>,
    <<"y", "a", "r", "n", ".", "l", "o", "c", "k">>, <<"p", "o", "e", "t", "r", "y", ".", "l", "o", "c", "k">>,
    <<".", "e", "n", "v">>, <<".", "e", "n", "v", ".", "l", "o", "c", "a", "l">>,
    <<".", "e", "n", "v", ".", "p", "r", "o", "d", "u", "c", "t", "i", "o", "n">> }

CODE_EXTENSIONS ==
    {
    <<".", "j", "s">>, <<".", "j", "s", "x">>, <<".", "t", "s">>, <<".", "t", "s", "x">>, <<".", "p", "y">>,
    <<".", "r", "b">>, <<".", "p", "h", "p">>, <<".", "j", "a", "v", "a">>, <<".", "h", "t", "m", "l">>, <<".", "c", "s", "s">>,
    <<".", "s", "c", "s", "s">>, <<".", "s", "a", "s", "s">>, <<".", "l", "e", "s", "s">>, <<".", "j", "s", "o", "n">>, <<".", "x", "m", "l">>,
    <<".", "y", "a", "m", "l">>, <<".", "y", "m", "l">>, <<".", "m", "d">>, <<".", "t", "x", "t">>, <<".", "v", "u", "e">>,
    <<".", "s", "v", "e", "l", "t", "e">>, <<".", "g", "o">>, <<".", "r", "s">>, <<".", "c">>, <<".", "c", "p", "p">>,
    <<".", "h">>, <<".", "s", "h">>, <<".", "b", "a", "s", "h">> }

BINARY_EXTENSIONS ==
    {
    <<".", "j", "p", "g">>, <<".", "j", "p", "e", "g">>, <<".", "p", "n", "g">>, <<".", "g", "i", "f">>, <<".", "i", "c", "o">>,
    <<".", "s", "v", "g">>, <<".", "p", "d", "f">>, <<".", "z", "i", "p">>, <<".", "t", "a", "r">>, <<".", "g", "z">>,
    <<".", "r", "a", "r">>, <<".", "e", "x", "e">>, <<".", "d", "l", "l">>, <<".", "s", "o">>, <<".", "d", "y", "l", "i", "b">>,
    <<".", "m", "p", "3">>, <<".", "m", "p", "4">>, <<".", "a", "v", "i">>, <<".", "m", "o", "v">>, <<".", "w", "o", "f", "f">>,
    <<".", "w", "o", "f", "f", "2">>, <<".", "t", "t", "f">>, <<".", "e", "o", "t">> }

N_package == <<"p", "a", "c", "k", "a", "g", "e", ".", "j", "s", "o", "n">>
N_requirements == <<"r", "e", "q", "u", "i", "r", "e", "m", "e", "n", "t", "s", ".", "t", "x", "t">>
N_pyproject == <<"p", "y", "p", "r", "o", "j", "e", "c", "t", ".", "t", "o", "m", "l">>
N_gemfile == <<"G", "e", "m", "f", "i", "l", "e">>
N_composer == <<"c", "o", "m", "p", "o", "s", "e", "r", ".", "j", "s", "o", "n">>
N_gomod == <<"g", "o", ".", "m", "o", "d">>
N_cargo == <<"C", "a", "r", "g", "o", ".", "t", "o", "m", "l">>
N_gitignore == <<".", "g", "i", "t", "i", "g", "n", "o", "r", "e">>
N_dockerignore == <<".", "d", "o", "c", "k", "e", "r", "i", "g", "n", "o", "r", "e">>
E_html == <<".", "h", "t", "m", "l">>

ShouldIgnoreDirDenySetOnly(dirname) == dirname \in IGNORE_DIRS

\* _should_ignore_dir
ShouldIgnoreDir(dirname) == dirname \in IGNORE_DIRS \/ StartsWith(dirname, <<".">>)

\* the index of the last '.' of a name, 0 if none
RECURSIVE LastDot(_, _)
LastDot(s, k) == IF k = 0 THEN 0 ELSE IF s[k] = "." THEN k ELSE LastDot(s, k - 1)

\* Path.suffix: from the last '.', unless it is the first or the last character
Suffix(name) ==
    LET k == LastDot(name, Len(name))
    IN IF 1 < k /\ k < Len(name) THEN SubSeq(name, k, Len(name)) ELSE <<>>

\* _should_ignore_file
ShouldIgnoreFile(filename) ==
    \/ filename \in IGNORE_FILES
    \/ StartsWith(filename, <<".">>) /\ filename \notin {N_gitignore, N_dockerignore}
    \/ Lower(Suffix(filename)) \in BINARY_EXTENSIONS

----------------------------------------------------------------------------
(* RepositoryIndexer: the walk and the file records *)

LOAD_CAP == 500000

\* hashlib.md5(content).hexdigest(): a value that is a function of the content
Md5(content) == <<"md5">> \o content

\* str(filepath.relative_to(self.repo_path))
RelativeStr(p) == Join(SubSeq(p, Len(repo_path) + 1, Len(p)), "/")

\* _create_file_info on a file whose stat() succeeds; `noread` are the files
\* whose open() or read() fails: the inner `except: pass` leaves content,
\* content_hash and lines as initialised
CreateFileInfo(f, filepath, noread) ==
    LET ext == Lower(Suffix(PathName(filepath)))
        is_code == ext \in CODE_EXTENSIONS
        load == is_code /\ Len(f[filepath]) < LOAD_CAP /\ filepath \notin noread
    IN [path |-> PathStr(filepath),
        relative_path |-> RelativeStr(filepath),
        size |-> Len(f[filepath]),
        extension |-> ext,
        is_code |-> is_code,
        content |-> IF load THEN f[filepath] ELSE NoneStr,
        content_hash |-> IF load THEN Md5(f[filepath]) ELSE NoneStr,
        lines |-> IF load THEN CountOcc(<<NL>>, f[filepath]) + 1 ELSE 0]

\* the directories os.walk lists from `root` down: the subdirectories that
\* `dirs[:] = [d for d in dirs if not self._should_ignore_dir(d)]` keeps
RECURSIVE WalkDirs(_, _)
WalkDirs(d, root) ==
    {root} \cup UNION { WalkDirs(d, sub) :
                          sub \in {q \in d : Len(q) > 0 /\ PathParent(q) = root
                                             /\ ~ShouldIgnoreDir(PathName(q))} }

\* the files of the walk that are not ignored
WalkFiles(f, d) ==
    {p \in DOMAIN f : PathParent(p) \in WalkDirs(d, repo_path)
                      /\ ~ShouldIgnoreFile(PathName(p))}

ScanFilesKeepNoStat(f, d, nostat, noread) ==
    [rel \in {RelativeStr(p) : p \in WalkFiles(f, d)} |->
        CreateFileInfo(f, CHOOSE p \in WalkFiles(f, d) : RelativeStr(p) = rel, noread)]

\* self.files after the walk: relative path -> FileInfo; `nostat` are the
\* files whose stat() fails, for which _create_file_info returns None
ScanFiles(f, d, nostat, noread) ==
    [rel \in {RelativeStr(p) : p \in WalkFiles(f, d) \ nostat} |->
        CreateFileInfo(f, CHOOSE p \in WalkFiles(f, d) \ nostat : RelativeStr(p) = rel, noread)]

----------------------------------------------------------------------------
(* RepositoryIndexer: project type and dependencies *)

\* the package.json documents of the model
PkgReact == <<"{", "\"", "d", "e", "p", "e", "n", "d", "e", "n", "c", "i", "e", "s", "\"", ":", "{", "\"", "r", "e", "a", "c", "t", "\"", ":", "\"", "1", "\"", "}", "}">>
PkgBroken == <<"{">>

K_react == <<"r", "e", "a", "c", "t">>
K_vue == <<"v", "u", "e">>
K_next == <<"n", "e", "x", "t">>
K_express == <<"e", "x", "p", "r", "e", "s", "s">>

\* json.loads on the documents of the model: the merged dependencies and
\* devDependencies of a package.json, or a parse error
JsonLoads(content) ==
    IF content = PkgReact THEN [ok |-> TRUE, deps |-> (K_react :> <<"1">>)]
    ELSE [ok |-> FALSE]

\* get_file_content for a file of the catalog: the content the record holds,
\* else the content on disk
GetFileContent(f, catalog, rel) ==
    IF catalog[rel].content # NoneStr THEN catalog[rel].content
    ELSE IF repo_path \o Split(rel, "/") \in DOMAIN f THEN f[repo_path \o Split(rel, "/")]
    ELSE NoneStr

\* whether `if content:` holds
Truthy(content) == content # NoneStr /\ content # <<>>

\* _detect_project_type: the project type it leaves, `old` being the one before
DetectProjectType(old, f, catalog) ==
    IF N_package \in DOMAIN catalog
    THEN LET package_json == GetFileContent(f, catalog, N_package)
         IN IF ~Truthy(package_json) THEN old
            ELSE IF ~JsonLoads(package_json).ok THEN "JavaScript"
            ELSE LET deps == JsonLoads(package_json).deps
                 IN IF K_react \in DOMAIN deps THEN "React"
                    ELSE IF K_vue \in DOMAIN deps THEN "Vue"
                    ELSE IF K_next \in DOMAIN deps THEN "Next.js"
                    ELSE IF K_express \in DOMAIN deps THEN "Node.js/Express"
                    ELSE "JavaScript"
    ELSE IF N_requirements \in DOMAIN catalog \/ N_pyproject \in DOMAIN catalog THEN "Python"
    ELSE IF N_gemfile \in DOMAIN catalog THEN "Ruby"
    ELSE IF N_composer \in DOMAIN catalog THEN "PHP"
    ELSE IF N_gomod \in DOMAIN catalog THEN "Go"
    ELSE IF N_cargo \in DOMAIN catalog THEN "Rust"
    ELSE IF \E rel \in DOMAIN catalog : catalog[rel].extension = E_html THEN "HTML/CSS/JS"
    ELSE "Unknown"

\* str.strip()
RECURSIVE LStrip(_)
LStrip(s) == IF Len(s) > 0 /\ Head(s) \in {" ", "\t", "\r", NL} THEN LStrip(Tail(s)) ELSE s
RECURSIVE RStrip(_)
RStrip(s) ==
    IF Len(s) > 0 /\ s[Len(s)] \in {" ", "\t", "\r", NL}
    THEN RStrip(SubSeq(s, 1, Len(s) - 1)) ELSE s
Strip(s) == RStrip(LStrip(s))

\* the list of requirements: the stripped lines that are not empty and do
\* not start with '#'
RECURSIVE PipLines(_)
PipLines(lines) ==
    IF Len(lines) = 0 THEN <<>>
    ELSE (IF Len(Strip(Head(lines))) > 0 /\ ~StartsWith(Head(lines), <<"#">>)
          THEN <<Strip(Head(lines))>> ELSE <<>>)
         \o PipLines(Tail(lines))

\* d with d[k] = v
DictSet(d, k, v) == [x \in DOMAIN d \cup {k} |-> IF x = k THEN v ELSE d[x]]

\* _parse_dependencies: self.dependencies after it, `old` being the one before
ParseDependencies(old, f, catalog) ==
    LET package_json == IF N_package \in DOMAIN catalog
                        THEN GetFileContent(f, catalog, N_package) ELSE NoneStr
        withNpm == IF Truthy(package_json) /\ JsonLoads(package_json).ok
                   THEN DictSet(old, "npm", JsonLoads(package_json).deps) ELSE old
        requirements == IF N_requirements \in DOMAIN catalog
                        THEN GetFileContent(f, catalog, N_requirements) ELSE NoneStr
    IN IF Truthy(requirements)
       THEN DictSet(withNpm, "pip", PipLines(Split(requirements, NL)))
       ELSE withNpm

----------------------------------------------------------------------------
(* RepositoryIndexer: the cache file *)

CACHE_VERSION == "1.0"

\* null in a JSON document
JsonNull == <<"<null>">>

\* json.dump and json.load of an optional string
DumpStr(v) == IF v = NoneStr THEN JsonNull ELSE v

LoadStrKeepNull(v) == v

LoadStr(v) == IF v = JsonNull THEN NoneStr ELSE v

\* json.dump and json.load of project_type
DumpType(v) == IF v = NoneType THEN "null" ELSE v
LoadType(v) == IF v = "null" THEN NoneType ELSE v

\* json.dump of FileInfo.to_dict()
DumpFileInfo(info) ==
    [path |-> info.path, relative_path |-> info.relative_path, size |-> info.size,
     extension |-> info.extension, is_code |-> info.is_code,
     content |-> DumpStr(info.content), content_hash |-> DumpStr(info.content_hash),
     lines |-> info.lines]

\* FileInfo(**data) on an entry json.load returns
LoadFileInfo(data) ==
    [path |-> data.path, relative_path |-> data.relative_path, size |-> data.size,
     extension |-> data.extension, is_code |-> data.is_code,
     content |-> LoadStr(data.content), content_hash |-> LoadStr(data.content_hash),
     lines |-> data.lines]

\* the document _save_cache writes
CacheData(st) ==
    [exists |-> TRUE, json |-> TRUE, version |-> CACHE_VERSION,
     project_type |-> DumpType(st.project_type),
     dependencies |-> st.dependencies,
     files |-> [rel \in DOMAIN st.files |-> DumpFileInfo(st.files[rel])]]

\* a cache file another version of the program wrote, and one that is not JSON
OldCache ==
    [exists |-> TRUE, json |-> TRUE, version |-> "0.9", project_type |-> "Python",
     dependencies |-> ("pip" :> <<<<"b">>>>), files |-> <<>>]
BrokenCache == [exists |-> TRUE, json |-> FALSE]

CacheUsableNever(doc) == FALSE

\* whether _load_cache returns True on the cache file
CacheUsable(doc) == doc.exists /\ doc.json /\ doc.version = CACHE_VERSION

\* the indexer after a _load_cache that returns True: the entries of the
\* cache are put into self.files
LoadCache(st, doc) ==
    [files |-> [rel \in DOMAIN st.files \cup DOMAIN doc.files |->
                  IF rel \in DOMAIN doc.files THEN LoadFileInfo(doc.files[rel])
                  ELSE st.files[rel]],
     project_type |-> LoadType(doc.project_type),
     dependencies |-> doc.dependencies]

----------------------------------------------------------------------------
(* RepositoryIndexer.index and the repository it runs on *)

MaxScans == 3
MaxChanges == 1

\* the indexer after the walk, the detection of the project type and the
\* parsing of the dependencies
Rescan(st, f, d, nostat, noread) ==
    LET catalog == ScanFiles(f, d, nostat, noread)
        readable == [p \in DOMAIN f \ noread |-> f[p]]
    IN [files |-> catalog,
        project_type |-> DetectProjectType(st.project_type, readable, catalog),
        dependencies |-> ParseDependencies(st.dependencies, readable, catalog)]

\* the indexer the constructor leaves: it raises ValueError when the root
\* does not exist, and the caller holds no indexer
NoIndexer == [files |-> <<>>, project_type |-> "<ValueError>", dependencies |-> <<>>]
Constructed(d) == IF repo_path \in d THEN NewIndexer ELSE NoIndexer

\* index(force_refresh); `io` tells whether the cache file can be written,
\* `nostat` and `noread` are the files whose stat() and whose read fail
Index(force_refresh, io, nostat, noread) ==
    /\ Len(scans) < MaxScans
    /\ ix # NoIndexer
    /\ LET loaded == ~force_refresh /\ CacheUsable(cache_file)
           after == IF loaded THEN LoadCache(ix, cache_file) ELSE Rescan(ix, fs, dirs, nostat, noread)
           saved == ~loaded /\ io = "none"
       IN /\ io = "save" => ~loaded
          /\ ix' = after
          /\ cache_file' = IF saved THEN CacheData(after) ELSE cache_file
          /\ persisted' = IF saved THEN [saved |-> TRUE, held |-> after] ELSE persisted
          /\ scans' = Append(scans,
                [force_refresh |-> force_refresh, walked |-> ~loaded, saved |-> saved,
                 before |-> ix, after |-> after, gen |-> gen,
                 visited |-> IF loaded THEN {} ELSE WalkDirs(dirs, repo_path),
                 persisted |-> persisted, cache |-> cache_file',
                 nostat |-> nostat, noread |-> noread])
    /\ UNCHANGED <<fs, dirs, clock, create_backups, pc, edits, gi, applied, failed,
                   backup_path, fs0, dirs0, seen, io_failed, events, calls, rb,
                   inputs, files, sel, val, scores, cleanVars, gen, appVars>>

\* RepositoryIndexer(repo_path): another indexer object on the same repository
Construct ==
    /\ ix # Constructed(dirs)
    /\ ix' = Constructed(dirs)
    /\ UNCHANGED <<fs, dirs, clock, create_backups, pc, edits, gi, applied, failed,
                   backup_path, fs0, dirs0, seen, io_failed, events, calls, rb,
                   inputs, files, sel, val, scores, cleanVars,
                   cache_file, scans, persisted, gen, appVars>>

P_package == repo_path \o <<N_package>>
P_requirements == repo_path \o <<N_requirements>>

\* requirements.txt with one requirement and one comment line
C_requirements == <<"b", NL, "#", "c">>

\* somebody deletes a manifest of the repository
RemoveManifest(p) ==
    /\ gen < MaxChanges
    /\ p \in DOMAIN fs
    /\ fs' = [q \in DOMAIN fs \ {p} |-> fs[q]]
    /\ gen' = gen + 1
    /\ UNCHANGED <<dirs, clock, create_backups, pc, edits, gi, applied, failed,
                   backup_path, fs0, dirs0, seen, io_failed, events, calls, rb,
                   inputs, files, sel, val, scores, cleanVars,
                   ix, cache_file, scans, persisted, appVars>>

\* somebody writes a manifest of the repository
WriteManifest(p, c) ==
    /\ gen < MaxChanges
    /\ IF p \in DOMAIN fs THEN fs[p] # c ELSE TRUE
    /\ fs' = WriteFile(fs, p, c)
    /\ gen' = gen + 1
    /\ UNCHANGED <<dirs, clock, create_backups, pc, edits, gi, applied, failed,
                   backup_path, fs0, dirs0, seen, io_failed, events, calls, rb,
                   inputs, files, sel, val, scores, cleanVars,
                   ix, cache_file, scans, persisted, appVars>>

N_xpy == <<"x", ".", "p", "y">>
N_xpng == <<"x", ".", "p", "n", "g">>
N_env == <<".", "e", "n", "v">>
N_node_modules == <<"n", "o", "d", "e", "_", "m", "o", "d", "u", "l", "e", "s">>
N_tmp == <<"t", "m", "p">>
N_hidden == <<".", "h">>

\* the files of the repository that are no manifests: a code file and a
\* file without extension in a/, an image and a dotfile in the root, and a
\* code file in each of node_modules/, a/tmp/ and .h/
SourceTree ==
    (repo_path \o <<DA, N_xpy>> :> ThreeLines)
    @@ (repo_path \o <<DA, FX>> :> OneLine)
    @@ (repo_path \o <<N_xpng>> :> OneLine)
    @@ (repo_path \o <<N_env>> :> OneLine)
    @@ (repo_path \o <<N_node_modules, N_xpy>> :> OneLine)
    @@ (repo_path \o <<DA, N_tmp, N_xpy>> :> OneLine)
    @@ (repo_path \o <<N_hidden, N_xpy>> :> OneLine)

\* the manifests a repository starts with
ManifestTrees ==
    { <<>>,
      (P_requirements :> C_requirements),
      (P_package :> PkgReact),
      (P_package :> <<>>) }

ManifestWrites ==
    { <<P_package, PkgReact>>, <<P_package, PkgBroken>> }

InitIndex ==
    /\ create_backups = FALSE
    /\ \E m \in ManifestTrees : fs = SourceTree @@ m
    /\ dirs = UNION {Ancestors(p) : p \in DOMAIN SourceTree}
    /\ clock = 0
    /\ pc = "idle"
    /\ edits = <<>>
    /\ gi = 1
    /\ applied = <<>>
    /\ failed = <<>>
    /\ backup_path = NoPath
    /\ fs0 = fs
    /\ dirs0 = dirs
    /\ seen = <<>>
    /\ io_failed = FALSE
    /\ events = <<>>
    /\ calls = 0
    /\ rb = NoRollback
    /\ inputs = {}
    /\ files = <<>>
    /\ sel = NoSel
    /\ val = NoVal
    /\ scores = <<>>
    /\ mtime = <<>>
    /\ cl = NoClean
    /\ ix = NewIndexer
    /\ cache_file \in {NoCache, OldCache, BrokenCache}
    /\ scans = <<>>
    /\ persisted = NotPersisted
    /\ gen = 0
    /\ AppIdle

NextIndex ==
    \/ \E force_refresh \in BOOLEAN, io \in {"none", "save"} : Index(force_refresh, io, {}, {})
    \/ Construct
    \/ \E p \in {P_package, P_requirements} : RemoveManifest(p)
    \/ \E w \in ManifestWrites : WriteManifest(w[1], w[2])

SpecIndex == InitIndex /\ [][NextIndex]_vars

----------------------------------------------------------------------------
(* Properties of the indexer *)

\* calls k and k + 1 are consecutive calls index(force_refresh=False) of one
\* indexer with no change to the repository between them
ConsecutiveUnforced(k) ==
    /\ ~scans[k].force_refresh
    /\ ~scans[k + 1].force_refresh
    /\ scans[k + 1].before = scans[k].after
    /\ scans[k + 1].gen = scans[k].gen

(* C12, as stated: two consecutive calls index(force_refresh=False) with no  *)
(* filesystem change between them return equal catalogs, and the second call *)
(* walks no directory: it is served from the cache.                          *)
C12_SecondScanServedFromCache ==
    \A k \in 1..(Len(scans) - 1) :
        ConsecutiveUnforced(k)
        => /\ scans[k + 1].after.files = scans[k].after.files
           /\ ~scans[k + 1].walked
           /\ scans[k + 1].visited = {}

(* C12, amended: two such calls return equal catalogs, and the second call   *)
(* walks no directory provided the first call was served from the cache or   *)
(* wrote the cache file; when the first call could not write the cache file, *)
(* the second call walks the repository again.                               *)
C12_SecondScanServedFromCacheIfSaved ==
    \A k \in 1..(Len(scans) - 1) :
        ConsecutiveUnforced(k)
        => /\ scans[k + 1].after.files = scans[k].after.files
           /\ (scans[k].saved \/ ~scans[k].walked)
              => (~scans[k + 1].walked /\ scans[k + 1].visited = {})
           /\ (scans[k].walked /\ ~scans[k].saved) => scans[k + 1].walked

C12_Witness ==
    /\ Len(scans) >= 2
    /\ ConsecutiveUnforced(1)
    /\ scans[1].walked
    /\ scans[1].saved
    /\ ~scans[2].walked
    /\ DOMAIN scans[2].after.files # {}
    /\ scans[2].after.files = scans[1].after.files

(* C13: the catalog, project type and dependency map that a scan wrote to    *)
(* the cache, when a fresh indexer loads them with index(force_refresh=      *)
(* False), equal the catalog, project type and dependency map the writing    *)
(* indexer held when it wrote them.                                          *)
C13_CacheRoundTrip ==
    \A k \in 1..Len(scans) :
        (~scans[k].force_refresh /\ ~scans[k].walked /\ scans[k].before = NewIndexer
            /\ scans[k].persisted.saved)
        => /\ scans[k].after.files = scans[k].persisted.held.files
           /\ scans[k].after.project_type = scans[k].persisted.held.project_type
           /\ scans[k].after.dependencies = scans[k].persisted.held.dependencies

C13_Witness ==
    \E k \in 1..Len(scans) :
        /\ ~scans[k].force_refresh
        /\ ~scans[k].walked
        /\ scans[k].before = NewIndexer
        /\ scans[k].persisted.saved
        /\ scans[k].after.project_type = "React"
        /\ "npm" \in DOMAIN scans[k].after.dependencies
        /\ \E rel \in DOMAIN scans[k].after.files : scans[k].after.files[rel].content = NoneStr
        /\ \E rel \in DOMAIN scans[k].after.files : scans[k].after.files[rel].content = ThreeLines

\* whether a directory name is in the deny-set or starts with a dot
Denied(name) == name \in IGNORE_DIRS \/ (Len(name) > 0 /\ name[1] = ".")

(* C14: after any scan that walks the filesystem, no catalog entry lies      *)
(* under a directory whose name is in the ignore deny-set or starts with a   *)
(* dot, at any depth, and the walk entered no such directory.                *)
C14_IgnoredDirsNeverCataloged ==
    \A k \in 1..Len(scans) :
        scans[k].walked
        => /\ \A rel \in DOMAIN scans[k].after.files :
                 \A i \in 1..(Len(Split(rel, "/")) - 1) : ~Denied(Split(rel, "/")[i])
           /\ \A d \in scans[k].visited :
                 \A i \in (Len(repo_path) + 1)..Len(d) : ~Denied(d[i])

C14_Witness ==
    /\ Len(scans) > 0
    /\ scans[1].walked
    /\ repo_path \o <<N_hidden, N_xpy>> \in DOMAIN fs
    /\ repo_path \o <<DA, N_tmp, N_xpy>> \in DOMAIN fs
    /\ repo_path \o <<N_node_modules, N_xpy>> \in DOMAIN fs
    /\ <<"a", "/", "x", ".", "p", "y">> \in DOMAIN scans[1].after.files
    /\ repo_path \o <<DA>> \in scans[1].visited

(* C20: after index(force_refresh=True) the catalog, project type and        *)
(* dependency map of the indexer, and the cache written from them, are those *)
(* of the filesystem as that scan walked it: nothing of an earlier scan or   *)
(* cache load survives.                                                      *)
C20_ForcedScanReflectsOnlyDisk ==
    \A k \in 1..Len(scans) :
        (scans[k].force_refresh /\ scans[k].gen = gen)
        => /\ scans[k].after = Rescan(NewIndexer, fs, dirs, {}, {})
           /\ scans[k].saved => scans[k].cache = CacheData(Rescan(NewIndexer, fs, dirs, {}, {}))

----------------------------------------------------------------------------
(* The edit engine on delete edits *)

\* the delete edits callers submit on the three-line file: one line, two
\* lines, an end counted from the end of the list, a start past the last
\* line and an end past the last line
DeleteEdits ==
    { NewEdit(PA, "delete", NoneStr, NoneStr, 0, 1),
      NewEdit(PA, "delete", NoneStr, NoneStr, 1, 3),
      NewEdit(PA, "delete", NoneStr, NoneStr, 0, -1),
      NewEdit(PA, "delete", NoneStr, NoneStr, 3, 3),
      NewEdit(PA, "delete", NoneStr, NoneStr, 0, 4) }

InitDelete ==
    /\ \E on \in {{}, {PA}} : InitEditor(on, DeleteEdits, {FALSE})
    /\ files = <<>>
    /\ sel = NoSel
    /\ val = NoVal

SpecDelete == InitDelete /\ [][Next]_vars

\* the edits of the current call after edit i in the group of edit i
LaterInGroup(i) == {j \in (i + 1)..Len(edits) : edits[j].file_path = edits[i].file_path}

\* the working content edit i left: what the next edit of its group found, or
\* what the file holds when edit i is the last of its group
ContentAfter(i) ==
    IF LaterInGroup(i) # {}
    THEN seen[CHOOSE j \in LaterInGroup(i) : \A k \in LaterInGroup(i) : j <= k]
    ELSE IF Target(i) \in DOMAIN fs THEN fs[Target(i)] ELSE <<>>

\* the lines whose 0-based index is outside [s, e), in order
RECURSIVE LinesOutside(_, _, _, _)
LinesOutside(lines, k, s, e) ==
    IF k > Len(lines) THEN <<>>
    ELSE (IF s <= k - 1 /\ k - 1 < e THEN <<>> ELSE <<lines[k]>>)
         \o LinesOutside(lines, k + 1, s, e)

(* C22: a delete edit succeeds if and only if 0 <= line_start < lineCount    *)
(* and line_end <= lineCount; on success the working content is the original *)
(* lines without exactly those at the indices in [line_start, line_end), the *)
(* others kept in order; otherwise the edit fails with an invalid-range      *)
(* error and the working content is unchanged.                               *)
C22_DeleteRemovesExactlyTheRange ==
    pc = "returned"
    => \A i \in 1..Len(edits) :
         (edits[i].operation = "delete" /\ ~GroupRaised(i) /\ Reached(i))
         => LET lines == Split(seen[i], NL)
                s == edits[i].line_start
                e == edits[i].line_end
                ok == 0 <= s /\ s < Len(lines) /\ e <= Len(lines)
            IN /\ edits[i].success <=> ok
               /\ ok => ContentAfter(i) = Join(LinesOutside(lines, 1, s, e), NL)
               /\ ~ok => (edits[i].error = "invalid_range" /\ ContentAfter(i) = seen[i])

----------------------------------------------------------------------------
(* The content apply_edits writes *)

\* what one successful edit makes of content c
EditedContent(c, e) ==
    CASE e.operation = "full_replace" -> e.new_content
      [] e.operation = "replace" -> ReplaceFirst(c, e.old_content, e.new_content)
      [] e.operation = "insert" -> Join(ListInsert(Split(c, NL), e.line_start, e.new_content), NL)
      [] e.operation = "delete" -> Join(ListDelSlice(Split(c, NL), e.line_start, e.line_end), NL)
      [] OTHER -> c

\* content c after the successful edits among idxs, in submission order
RECURSIVE SuccessfulEditsApplied(_, _)
SuccessfulEditsApplied(c, idxs) ==
    IF Len(idxs) = 0 THEN c
    ELSE SuccessfulEditsApplied(
            IF edits[Head(idxs)].success THEN EditedContent(c, edits[Head(idxs)]) ELSE c,
            Tail(idxs))

\* the content of file t when the current call began ('' for a new file)
ContentBefore(t) == IF t \in DOMAIN fs0 THEN fs0[t] ELSE <<>>

\* every edit of the current call was attempted
AllAttempted == \A i \in 1..Len(edits) : seen[i] # NotReached

\* an edit that failed left the working content as it found it
FailedLeaveContent ==
    \A i \in 1..Len(edits) :
        (seen[i] # NotReached /\ ~edits[i].success /\ LaterInGroup(i) # {}
            /\ seen[CHOOSE j \in LaterInGroup(i) : \A k \in LaterInGroup(i) : j <= k] # NotReached)
        => ContentAfter(i) = seen[i]

\* each target file holds what its successful edits make of its content
WrittenIsSuccessfulEdits ==
    \A g \in 1..Len(GroupKeys(edits, {})) :
        LET key == GroupKeys(edits, {})[g]
            idxs == GroupEdits(edits, key, 1)
            t == FullPath(key)
        IN IF AnySuccess(edits, idxs)
           THEN t \in DOMAIN fs
                /\ fs[t] = SuccessfulEditsApplied(ContentBefore(t), idxs)
           ELSE FileUnchanged(t)

(* C23: when apply_edits returns without an I/O failure, each target file    *)
(* holds the result of applying its successful edits in submission order,    *)
(* each against the content the edits before it produced; an edit that fails *)
(* leaves the working content unchanged, and every edit of the batch, in the *)
(* same group and in other groups, was attempted.                            *)
C23_SequentialEditsPerFile ==
    (pc = "returned" /\ ~io_failed /\ ~rb.called)
    => /\ AllAttempted
       /\ FailedLeaveContent
       /\ WrittenIsSuccessfulEdits

----------------------------------------------------------------------------
(* The edit engine on target paths that leave the repository *)

\* the edits callers submit in runs about where apply_edits writes: a path
\* with a '..' component, an absolute path, and a path inside the repository
OutsideEdits ==
    { NewEdit(RelPath(<<UP, RX, FX>>), "full_replace", NoneStr, <<"b">>, NoneInt, NoneInt),
      NewEdit(AbsPath(<<RX, FX>>), "full_replace", NoneStr, <<"c">>, NoneInt, NoneInt),
      NewEdit(PA, "full_replace", NoneStr, <<"b">>, NoneInt, NoneInt) }

InitOutside ==
    /\ \E on \in {{PA}} : InitEditor(on, OutsideEdits, {TRUE})
    /\ files = <<>>
    /\ sel = NoSel
    /\ val = NoVal

SpecOutside == InitOutside /\ [][Next]_vars

(* C26: apply_edits never creates or modifies a file outside the repository  *)
(* root: every file outside the root is on disk exactly as it was when the   *)
(* call began, whatever target paths the edits carry.                        *)
C26_NothingWrittenOutsideRoot ==
    \A p \in DOMAIN fs \cup DOMAIN fs0 : ~InsideRoot(p) => FileUnchanged(p)

----------------------------------------------------------------------------
(* The order of the ranked list *)

\* the position of file_info in the catalog's iteration order, 0 if absent
CatalogPosition(file_info) ==
    IF \E p \in 1..Len(files) : files[p] = file_info
    THEN CHOOSE p \in 1..Len(files) : files[p] = file_info
    ELSE 0

(* C24: the list select_context ranks holds only code files of the catalog   *)
(* whose score is strictly greater than 0, in non-increasing score order,    *)
(* and two files with equal scores are in the relative order of the          *)
(* catalog's iteration.                                                      *)
C24_RankedSortedStable ==
    sel.called
    => \A k \in 1..Len(sel.ranked) :
          /\ CatalogPosition(sel.ranked[k].file_info) > 0
          /\ sel.ranked[k].file_info.is_code
          /\ sel.ranked[k].score > 0
          /\ sel.ranked[k].score = ScoreFile(sel.ranked[k].file_info, ExtractKeywords(sel.task),
                                             sel.task_type, sel.target_files)
          /\ \A l \in (k + 1)..Len(sel.ranked) :
                /\ sel.ranked[k].score >= sel.ranked[l].score
                /\ sel.ranked[k].score = sel.ranked[l].score
                   => CatalogPosition(sel.ranked[k].file_info)
                        < CatalogPosition(sel.ranked[l].file_info)

\* a catalog of three files of which one is discarded and the two ranked
\* ones score the same
C24_Witness ==
    /\ sel.called
    /\ Len(files) = 3
    /\ Len(sel.ranked) = 2
    /\ sel.ranked[1].score = sel.ranked[2].score
    /\ files[1] = sel.ranked[1].file_info

----------------------------------------------------------------------------
(* The indexer on files it cannot read *)

P_axpy == repo_path \o <<DA, N_xpy>>
P_ax == repo_path \o <<DA, FX>>

\* what a scan may find unreadable: nothing; the metadata of a/x; the
\* content of a/x.py; the metadata of a/x.py; the content of requirements.txt
\* together with the metadata of a/x
Unreadables ==
    { [nostat |-> {}, noread |-> {}],
      [nostat |-> {P_ax}, noread |-> {}],
      [nostat |-> {}, noread |-> {P_axpy}],
      [nostat |-> {P_axpy}, noread |-> {P_axpy}],
      [nostat |-> {P_ax}, noread |-> {P_requirements}] }

\* RepositoryIndexer(repo_path) on a repository with a requirements.txt, or
\* on a root that does not exist
InitUnreadable ==
    /\ create_backups = FALSE
    /\ \/ /\ fs = SourceTree @@ (P_requirements :> C_requirements)
          /\ dirs = UNION {Ancestors(p) : p \in DOMAIN SourceTree}
       \/ /\ fs = <<>>
          /\ dirs = {<<>>}
    /\ clock = 0
    /\ pc = "idle"
    /\ edits = <<>>
    /\ gi = 1
    /\ applied = <<>>
    /\ failed = <<>>
    /\ backup_path = NoPath
    /\ fs0 = fs
    /\ dirs0 = dirs
    /\ seen = <<>>
    /\ io_failed = FALSE
    /\ events = <<>>
    /\ calls = 0
    /\ rb = NoRollback
    /\ inputs = {}
    /\ files = <<>>
    /\ sel = NoSel
    /\ val = NoVal
    /\ scores = <<>>
    /\ mtime = <<>>
    /\ cl = NoClean
    /\ ix = Constructed(dirs)
    /\ cache_file = NoCache
    /\ scans = <<>>
    /\ persisted = NotPersisted
    /\ gen = 0
    /\ AppIdle

NextUnreadable ==
    \/ \E force_refresh \in BOOLEAN, u \in Unreadables :
          Index(force_refresh, "none", u.nostat, u.noread)
    \/ Construct

SpecUnreadable == InitUnreadable /\ [][NextUnreadable]_vars

\* the files of the walk that scan k could read in full
ReadableFiles(k) == WalkFiles(fs, dirs) \ (scans[k].nostat \cup scans[k].noread)

\* every file scan k could read in full is cataloged with its content
OthersCataloged(k) ==
    \A p \in ReadableFiles(k) :
        /\ RelativeStr(p) \in DOMAIN scans[k].after.files
        /\ scans[k].after.files[RelativeStr(p)].size = Len(fs[p])
        /\ scans[k].after.files[RelativeStr(p)].is_code
           => scans[k].after.files[RelativeStr(p)].content = fs[p]

\* the constructor raised exactly when the root does not exist
OnlyMissingRootFatal == (ix = NoIndexer) <=> (repo_path \notin dirs)

----------------------------------------------------------------------------
(* app.py: create_ticket and the workflow threads *)

\* the ticket ids of the requests: given by the user or built by
\* generate_ticket_id from the description and the project's tickets
TicketIds == {"FIX-001", "FEAT-001"}

\* the status dict of send_status_update, and the thread that sent it
Status(w, progress, complete, error, pr_url) ==
    [by |-> w, progress |-> progress, complete |-> complete, error |-> error,
     pr_url |-> pr_url]

\* an update that is not the last
Progress(w, progress) == Status(w, progress, FALSE, FALSE, FALSE)

\* the update of the except clause
ErrorStatus(w) == Status(w, 0, TRUE, TRUE, FALSE)

\* send_status_update: the status goes on the Queue that ticket_queues holds
\* for the ticket id now
SendStatusUpdate(qs, tq, ticket_id, status) ==
    IF ticket_id \in DOMAIN tq
    THEN [qs EXCEPT ![tq[ticket_id]] = Append(@, status)]
    ELSE qs

\* several send_status_update calls of one thread, in order
RECURSIVE SendAll(_, _, _, _)
SendAll(qs, tq, ticket_id, statuses) ==
    IF Len(statuses) = 0 THEN qs
    ELSE SendAll(SendStatusUpdate(qs, tq, ticket_id, Head(statuses)), tq, ticket_id,
                 Tail(statuses))

\* the parameters add_ticket declares, and the keywords the workflow passes
AddTicketParams == {"project_id", "ticket_id", "description", "pr_url"}
AddTicketKeywords == {"project_id", "ticket_id", "description", "pr_url", "workflow_data"}

\* whether a call with these keywords raises TypeError
CallRaises(keywords, params) == ~(keywords \subseteq params)

\* the ticket dict add_ticket appends
Ticket(ticket_id, pr_url) == [ticket_id |-> ticket_id, pr_url |-> pr_url]

\* create_ticket: a new Queue under the ticket id, and the thread started
CreateTicket(w, project_id, ticket_id) ==
    /\ wf[w].pc = "idle"
    /\ IF w = 1 THEN TRUE ELSE wf[w - 1].pc # "idle"
    /\ project_id \in DOMAIN store
    /\ queues' = Append(queues, <<>>)
    /\ ticket_queues' = [t \in DOMAIN ticket_queues \cup {ticket_id} |->
                            IF t = ticket_id THEN Len(queues) + 1 ELSE ticket_queues[t]]
    /\ wf' = [wf EXCEPT ![w] = [pc |-> "initialize", ticket |-> ticket_id,
                                project |-> project_id, queue |-> Len(queues) + 1,
                                indexer |-> 0, pr_url |-> FALSE]]
    /\ UNCHANGED <<coreVars, repo_indexers, store, callers>>

\* steps 1 and 2 of run_enhanced_workflow up to the indexer: the cached one,
\* or a new one that is indexed before it is put in repo_indexers
Initialize(w, outcome) ==
    /\ wf[w].pc = "initialize"
    /\ LET repo_name == RepoOf(wf[w].project)
           cached == repo_name \in DOMAIN repo_indexers
       IN IF outcome = "raise"
          THEN /\ queues' = SendAll(queues, ticket_queues, wf[w].ticket,
                                    <<Progress(w, 5), ErrorStatus(w)>>)
               /\ wf' = [wf EXCEPT ![w].pc = "done"]
          ELSE /\ queues' = SendAll(queues, ticket_queues, wf[w].ticket,
                                    <<Progress(w, 5), Progress(w, 10)>>)
               /\ wf' = [wf EXCEPT ![w].pc = IF cached THEN "select" ELSE "store",
                                   ![w].indexer = IF cached THEN repo_indexers[repo_name] ELSE w]
    /\ UNCHANGED <<coreVars, ticket_queues, repo_indexers, store, callers>>

\* `repo_indexers[repo_name] = indexer`
StoreIndexer(w) ==
    /\ wf[w].pc = "store"
    /\ repo_indexers' = [r \in DOMAIN repo_indexers \cup {RepoOf(wf[w].project)} |->
                            IF r = RepoOf(wf[w].project) THEN wf[w].indexer
                            ELSE repo_indexers[r]]
    /\ wf' = [wf EXCEPT ![w].pc = "select"]
    /\ UNCHANGED <<coreVars, ticket_queues, queues, store, callers>>

\* step 3: get_summary, select_context and format_context_for_ai on the indexer
WorkflowSelect(w) ==
    /\ wf[w].pc = "select"
    /\ queues' = SendStatusUpdate(queues, ticket_queues, wf[w].ticket, Progress(w, 15))
    /\ wf' = [wf EXCEPT ![w].pc = "generate"]
    /\ UNCHANGED <<coreVars, ticket_queues, repo_indexers, store, callers>>

\* steps 4 to 7: code generation, branch creation, edit application
GenerateAndApply(w, outcome) ==
    /\ wf[w].pc = "generate"
    /\ LET plan == <<Progress(w, 18), Progress(w, 19), Progress(w, 20)>>
           made == <<Progress(w, 40), Progress(w, 50), Progress(w, 60)>>
       IN CASE outcome = "raise" ->
                 /\ queues' = SendAll(queues, ticket_queues, wf[w].ticket,
                                      plan \o <<ErrorStatus(w)>>)
                 /\ wf' = [wf EXCEPT ![w].pc = "done"]
            [] outcome = "edit_failed" ->
                 /\ queues' = SendAll(queues, ticket_queues, wf[w].ticket,
                                      plan \o made \o <<Status(w, 0, TRUE, TRUE, FALSE)>>)
                 /\ wf' = [wf EXCEPT ![w].pc = "done"]
            [] OTHER ->
                 /\ queues' = SendAll(queues, ticket_queues, wf[w].ticket, plan \o made)
                 /\ wf' = [wf EXCEPT ![w].pc = "publish"]
    /\ UNCHANGED <<coreVars, ticket_queues, repo_indexers, store, callers>>

\* steps 8 to 10 and the completion: commit, push, pull request, add_ticket
PublishAndSave(w, outcome) ==
    /\ wf[w].pc = "publish"
    /\ LET pushed == <<Progress(w, 70), Progress(w, 80), Progress(w, 90),
                       Progress(w, 95), Progress(w, 98)>>
       IN IF outcome = "raise"
          THEN /\ queues' = SendAll(queues, ticket_queues, wf[w].ticket,
                                    <<Progress(w, 70), ErrorStatus(w)>>)
               /\ wf' = [wf EXCEPT ![w].pc = "done"]
               /\ store' = store
          ELSE IF CallRaises(AddTicketKeywords, AddTicketParams)
          THEN /\ queues' = SendAll(queues, ticket_queues, wf[w].ticket,
                                    pushed \o <<ErrorStatus(w)>>)
               /\ wf' = [wf EXCEPT ![w].pc = "done", ![w].pr_url = TRUE]
               /\ store' = store
          ELSE /\ queues' = SendAll(queues, ticket_queues, wf[w].ticket,
                                    pushed \o <<Status(w, 100, TRUE, FALSE, TRUE)>>)
               /\ wf' = [wf EXCEPT ![w].pc = "done", ![w].pr_url = TRUE]
               /\ store' = IF wf[w].project \in DOMAIN store
                           THEN [store EXCEPT ![wf[w].project] =
                                    Append(@, Ticket(wf[w].ticket, TRUE))]
                           ELSE store
    /\ UNCHANGED <<coreVars, ticket_queues, repo_indexers, callers>>

\* one step of thread w
WorkflowStep(w) ==
    \/ \E outcome \in {"ok", "raise"} : Initialize(w, outcome)
    \/ StoreIndexer(w)
    \/ WorkflowSelect(w)
    \/ \E outcome \in {"ok", "raise", "edit_failed"} : GenerateAndApply(w, outcome)
    \/ \E outcome \in {"ok", "raise"} : PublishAndSave(w, outcome)

InitWorkflow ==
    /\ InitEditor({}, {}, {FALSE})
    /\ files = <<>>
    /\ sel = NoSel
    /\ val = NoVal

NextWorkflow ==
    \/ \E w \in Workflows, project_id \in Projects, ticket_id \in TicketIds :
          CreateTicket(w, project_id, ticket_id)
    \/ \E w \in Workflows : WorkflowStep(w)

SpecWorkflow == InitWorkflow /\ [][NextWorkflow]_vars

\* a started thread runs: each of its steps returns
SpecWorkflowFair ==
    InitWorkflow /\ [][NextWorkflow]_vars /\ \A w \in Workflows : WF_vars(WorkflowStep(w))

\* the threads that are started and have not returned
InFlight == {w \in Workflows : wf[w].pc \notin {"idle", "done"}}

(* C21: no two workflows that are in flight at the same time hold the same   *)
(* indexer object, also when both target the same repository.                *)
C21_IndexerOwnedByOneWorkflow ==
    \A v, w \in InFlight :
        (v # w /\ wf[v].indexer # 0) => wf[v].indexer # wf[w].indexer


\* the values of a sequence
Updates(q) == {q[i] : i \in DOMAIN q}

\* the finished workflows whose pull request was created: every step up to
\* create_pull_request succeeded
Published == {w \in Workflows : wf[w].pc = "done" /\ wf[w].pr_url}

(* C28: a workflow whose steps up to the pull request all succeeded has      *)
(* recorded its ticket in its project and has sent a terminal update that is  *)
(* complete, carries the pull-request URL and has no error.                   *)
C28_SuccessRecordsTicketAndCompletes ==
    \A w \in Published :
        /\ Ticket(wf[w].ticket, TRUE) \in Updates(store[wf[w].project])
        /\ \E q \in DOMAIN queues : Status(w, 100, TRUE, FALSE, TRUE) \in Updates(queues[q])

\* the positions of thread w's terminal updates on the Queue create_ticket
\* made for it
TerminalsOf(w) ==
    {i \in DOMAIN queues[wf[w].queue] :
        queues[wf[w].queue][i].by = w /\ queues[wf[w].queue][i].complete}

\* thread w has put nothing on its Queue behind a terminal update
NothingAfterTerminal(w) ==
    \A i \in TerminalsOf(w) : \A j \in DOMAIN queues[wf[w].queue] :
        j > i => queues[wf[w].queue][j].by # w

Started == {w \in Workflows : wf[w].pc # "idle"}

(* C27: every workflow started by create_ticket eventually has exactly one   *)
(* terminal update (complete = true) on the status queue of its ticket, on    *)
(* every path, and never more than one, and nothing of its own behind it.     *)
C27_ExactlyOneTerminalUpdate ==
    /\ \A w \in Workflows :
          (w \in Started) ~> (w \in Started /\ Cardinality(TerminalsOf(w)) = 1)
    /\ [](\A w \in Started : Cardinality(TerminalsOf(w)) <= 1 /\ NothingAfterTerminal(w))

----------------------------------------------------------------------------
(* project_manager.py: add_ticket called from several threads *)

\* the project ids of the calls: the two projects and one that does not exist
CallProjects == Projects \cup {"p9"}

\* add_ticket up to the save: the projects file is loaded, and the ticket is
\* appended to the loaded dict unless the project is missing (return None)
AddTicketLoad(c, project_id, ticket_id, pr_url) ==
    /\ callers[c].pc = "idle"
    /\ IF c = 1 THEN TRUE ELSE callers[c - 1].pc # "idle"
    /\ LET projects == store
       IN IF project_id \notin DOMAIN projects
          THEN callers' = [callers EXCEPT ![c] = [pc |-> "none", project_id |-> project_id,
                                                  projects |-> projects]]
          ELSE callers' = [callers EXCEPT ![c] =
                              [pc |-> "loaded", project_id |-> project_id,
                               projects |-> [projects EXCEPT ![project_id] =
                                               Append(@, Ticket(ticket_id, pr_url))]]]
    /\ UNCHANGED <<coreVars, wf, ticket_queues, queues, repo_indexers, store>>

\* `self._save_projects(projects)` and the return of the project
AddTicketSave(c) ==
    /\ callers[c].pc = "loaded"
    /\ store' = callers[c].projects
    /\ callers' = [callers EXCEPT ![c].pc = "returned"]
    /\ UNCHANGED <<coreVars, wf, ticket_queues, queues, repo_indexers>>

InitStore == InitWorkflow

NextStore ==
    \/ \E c \in Callers, project_id \in CallProjects, ticket_id \in TicketIds,
          pr_url \in BOOLEAN :
          AddTicketLoad(c, project_id, ticket_id, pr_url)
    \/ \E c \in Callers : AddTicketSave(c)

SpecStore == InitStore /\ [][NextStore]_vars

\* the calls that returned the project, for one project
Added(project_id) ==
    {c \in Callers : callers[c].pc = "returned" /\ callers[c].project_id = project_id}

(* C29: once all concurrent add_ticket calls have returned, the persisted    *)
(* store holds one ticket for every call that returned a project: no update   *)
(* is lost.                                                                   *)
C29_NoLostUpdate ==
    (\A c \in Callers : callers[c].pc \in {"returned", "none"}) =>
        \A project_id \in DOMAIN store :
            Len(store[project_id]) = Cardinality(Added(project_id))

----------------------------------------------------------------------------
(* app.py: one workflow after another on the same repository *)

PXPY == RelPath(<<DA, N_xpy>>)      \* a/x.py

\* the edits of the workflows: the generated files replace a/x.py and a/x
StaleEdits ==
    { NewEdit(PXPY, "full_replace", NoneStr, <<"b">>, NoneInt, NoneInt),
      NewEdit(PA, "full_replace", NoneStr, <<"b">>, NoneInt, NoneInt) }

\* the extension of a FileInfo as the selector's tables spell it
ExtensionStr(ext) ==
    IF ext = <<".", "p", "y">> THEN ".py" ELSE IF ext = <<>> THEN "" ELSE "<other>"

\* the fields of a FileInfo of the indexer that the selector reads
Selectable(file_info) ==
    FileInfo(file_info.relative_path, file_info.size, ExtensionStr(file_info.extension),
             file_info.is_code, file_info.content)

\* list(indexer.files.values()) in some order
CatalogOrders(catalog) ==
    {c \in [1..Cardinality(DOMAIN catalog) ->
               {Selectable(catalog[rel]) : rel \in DOMAIN catalog}] :
        \A i, j \in DOMAIN c : i # j => c[i] # c[j]}

\* step 2 of run_enhanced_workflow and the selector of step 3: the indexer of
\* repo_indexers, or a new one after index(), and SmartContextSelector(indexer)
GetIndexer(repo_name) ==
    /\ pc # "running"
    /\ files = <<>> \/ sel.called
    /\ LET cached == repo_name \in DOMAIN repo_indexers
           loaded == CacheUsable(cache_file)
           indexed == IF loaded THEN LoadCache(Constructed(dirs), cache_file)
                      ELSE Rescan(Constructed(dirs), fs, dirs, {}, {})
           indexer == IF cached THEN ix ELSE indexed
       IN /\ ix' = indexer
          /\ cache_file' = IF cached \/ loaded THEN cache_file ELSE CacheData(indexed)
          /\ repo_indexers' = [r \in DOMAIN repo_indexers \cup {repo_name} |-> 1]
          /\ files' \in CatalogOrders(indexer.files)
          /\ sel' = NoSel
    /\ UNCHANGED <<fs, dirs, clock, create_backups, pc, edits, gi, applied, failed,
                   backup_path, fs0, dirs0, seen, io_failed, events, calls, rb, inputs,
                   val, scores, cleanVars, scans, persisted, gen,
                   wf, ticket_queues, queues, store, callers>>

\* the application is started again: repo_indexers is empty
Restart ==
    /\ pc # "running"
    /\ repo_indexers # <<>>
    /\ repo_indexers' = <<>>
    /\ UNCHANGED <<coreVars, wf, ticket_queues, queues, store, callers>>

InitStale ==
    /\ InitEditor({PA, PXPY}, StaleEdits, {TRUE})
    /\ files = <<>>
    /\ sel = NoSel
    /\ val = NoVal

\* the workflows run one after the other: index, select, apply the edits
NextStale ==
    \/ GetIndexer("r1")
    \/ \E task \in {T_fix, T_none} : pc # "running" /\ files # <<>> /\ SelectContext(task, <<>>, 8, 6000)
    \/ \E batch \in Batches : sel.called /\ ApplyEditsBegin(batch)
    \/ \E io \in IOFailures : ApplyEditsFile(io)
    \/ ApplyEditsReturn
    \/ Restart

SpecStale == InitStale /\ [][NextStale]_vars

\* the record holds the size the file has on disk, and its content if it
\* holds one
CatalogedAsOnDisk(file_info) ==
    LET filepath == repo_path \o Split(file_info.relative_path, "/")
    IN IF filepath \in DOMAIN fs
       THEN /\ file_info.size = Len(fs[filepath])
            /\ file_info.content # NoneStr => file_info.content = fs[filepath]
       ELSE FALSE

(* C30: a selection scores and bundles every file with the content and the   *)
(* size the file has on disk at that time, also a file that the edits of an   *)
(* earlier workflow on the same repository have changed.                      *)
C30_SelectionSeesEditedFiles ==
    [][(~sel.called /\ sel'.called) =>
          \A k \in 1..Len(sel'.ranked) : CatalogedAsOnDisk(sel'.ranked[k].file_info)]_vars

====
